---- MODULE Spec2Model ----
(***************************************************************************)
(* A model of the UI runtime of libDaisy: the UiEventQueue, the            *)
(* ButtonMonitor, the PotMonitor and the page-stack dispatcher UI.         *)
(***************************************************************************)
EXTENDS Integers, Sequences, FiniteSets, TLC

(***************************************************************************)
(* Bounds of the model.                                                    *)
(***************************************************************************)
\* Number of slots of the ring buffer (RingBuffer<Event, 256> scaled down).
kQueueSize == 2
\* Largest number of add* calls in one behaviour of the queue specifications.
MaxPushes == 4

VARIABLES
    events_,      \* UiEventQueue::events_ : [buf, rd, cnt]
    pushed,       \* history: the events handed to add*, in linearisation order
    popped,       \* history: the events returned by getAndRemoveNextEvent from a non-empty queue
    ref,          \* reference FIFO: what a sequential drop-oldest queue holds
    lastRet,      \* the value returned by the last getAndRemoveNextEvent / isQueueEmpty
    refRet,       \* what the reference FIFO returns for that call
    overflowed,   \* an add* has run while the queue was full
    firstPopAt,   \* number of add* calls before the first pop (-1: no pop yet)
    pc,           \* position of the main loop inside a queue operation
    irqMasked,    \* ScopedIrqBlocker is alive: interrupts are masked
    loc,          \* locals of the main loop's running queue operation
    sysTime,      \* System::GetNow()
    posted,       \* the events the last Process() call added to the queue, in order
    calls,        \* number of Process() calls
    timeout_,     \* ButtonMonitor::timeout_
    doubleClickTimeout_,
    buttonStates_,
    lastClickTimes_,
    numSuccessiveClicks_,
    lastCallSysTime_,
    lastRaw,      \* the raw state each button had on the last Process() call
    pressRun,     \* ticks over which the raw state was read pressed without a break (-1: not pressed)
    relRun,       \* ticks over which the raw state was read released without a break (-1: not released)
    lastEv,       \* type of the most recent event posted for each button
    edgeCount,    \* click count carried by the most recent ButtonPressed event (-1: none)
    sinceEdge,    \* ticks since the most recent ButtonPressed event
    maxTd,        \* the largest time between two Process() calls
    dead_band_,   \* PotMonitor
    dead_band_idle_,
    potTimeout_,  \* PotMonitor::timeout_
    last_value_,
    timeout_counter_,
    last_time_,
    potRead,      \* the value the backend gave for each pot on the last process() call
    lastActivity  \* the most recent PotActivityChanged event posted for each pot

qvars == <<events_, pushed, popped, ref, lastRet, refRet, overflowed, firstPopAt>>
ivars == <<pc, irqMasked, loc>>
mvars == <<sysTime, posted, calls>>
bvars == <<timeout_, doubleClickTimeout_, buttonStates_, lastClickTimes_,
           numSuccessiveClicks_, lastCallSysTime_, lastRaw, pressRun,
           relRun, lastEv, edgeCount, sinceEdge, maxTd>>
pvars == <<dead_band_, dead_band_idle_, potTimeout_, last_value_, timeout_counter_,
           last_time_, potRead, lastActivity>>

VARIABLES
    pages_,       \* UI::pages_ of each dispatcher : [buffer_, buffer_head_]
    parent_,      \* UiPage::parent_ of each page
    hooks,        \* the onShow / onHide calls made by the last operation, in order
    lastOp,       \* the last operation on a dispatcher : [op, ui, page]
    snap          \* the pages on the stack of that dispatcher before the last operation


VARIABLES
    is_muted_,    \* UI::is_muted_
    queue_events_,
    bttn_ids_,    \* ok_bttn_id_, cancel_bttn_id_, func_bttn_id_ and arrow_bttn_ids_[4], by role
    button_state_buffer_,
    displays_,    \* UI::displays_ : the update rate of each display added, in order
    last_display_update_times_,
    invoked,      \* per event dispatched by the operation that was the last, if it was a
                  \* process(): the event, the stack before it and the handler calls
                  \* made for it, in order
    redraws,      \* the displays the last process() has redrawn
    holding,      \* mute(true, true) was called and no unmuted process() or mute(true, false) since
    held,         \* the events pushed since the first one pushed during that mute
    redrawCount,  \* number of redraws of each display
    everyTick     \* process() was called on every tick so far

VARIABLES
    painted,      \* per display redrawn by the operation that was the last, if it was a
                  \* process(): the calls made on the display and the draw calls made
                  \* on the pages, in order
    menu,         \* the AbstractMenu: its fields, by name
    effects,      \* what the items of the menu refer to: the flags of the checkboxes
                  \* and the calls made on values, callbacks and custom items
    queried       \* the operation that was the last, if it was a query of the button
                  \* states of the dispatcher: the call, the index read and the answer

VARIABLES
    stack,        \* a Stack<T, kBufferSize> of its own: buffer_ and buffer_head_
    stackOp       \* the operation on it that was the last: the call, whether it has
                  \* returned, what it has returned and the stack it was called on

mnvars == <<menu, effects>>

dvars == <<is_muted_, queue_events_, bttn_ids_, button_state_buffer_, displays_,
           last_display_update_times_, invoked, redraws, holding, held, redrawCount,
           everyTick>>

svars == <<stack, stackOp>>

uvars == <<pages_, parent_, hooks, lastOp, snap, dvars, painted, mnvars, queried, svars>>

vars == <<qvars, ivars, mvars, bvars, pvars, uvars>>

\* The stack in a specification it takes no part in.
NoStack == stack = <<>> /\ stackOp = <<>>

\* The state of the dispatchers in a specification they take no part in.
NoDispatch ==
    /\ is_muted_ = FALSE
    /\ queue_events_ = FALSE
    /\ bttn_ids_ = <<>>
    /\ button_state_buffer_ = <<>>
    /\ displays_ = <<>>
    /\ last_display_update_times_ = <<>>
    /\ invoked = <<>>
    /\ redraws = <<>>
    /\ holding = FALSE
    /\ held = <<>>
    /\ redrawCount = <<>>
    /\ everyTick = TRUE
    /\ painted = <<>>
    /\ menu = <<>>
    /\ effects = <<>>
    /\ queried = <<>>

NoUi ==
    /\ NoDispatch
    /\ NoStack
    /\ pages_ = <<>>
    /\ parent_ = <<>>
    /\ hooks = <<>>
    /\ lastOp = <<>>
    /\ snap = <<>>

(***************************************************************************)
(* Events (UiEventQueue::Event).  payload holds the variant's fields.      *)
(***************************************************************************)
Ev(type, id, payload) == [type |-> type, id |-> id, payload |-> payload]

NoPayload == "none"
\* The content of a slot of events_ that was never written.
Uninit == Ev("UNINIT", 0, NoPayload)
\* Event m; m.type = Event::EventType::INVALID;
InvalidEvent == Ev("INVALID", 0, NoPayload)

(***************************************************************************)
(* RingBuffer<Event, N>  (util_ringbuffer.h)                               *)
(***************************************************************************)
EmptyRing == [buf |-> [i \in 0 .. kQueueSize - 1 |-> Uninit], rd |-> 0, cnt |-> 0]

isEmpty(q) == q.cnt = 0

WritePos(q) == (q.rd + q.cnt) % kQueueSize

\* The index update that ends Overwrite: a full buffer gives up its oldest element.
Advance(q) ==
    IF q.cnt = kQueueSize
    THEN [q EXCEPT !.rd = (q.rd + 1) % kQueueSize]
    ELSE [q EXCEPT !.cnt = q.cnt + 1]

Overwrite(q, e) == Advance([q EXCEPT !.buf[WritePos(q)] = e])

\* The element ImmediateRead returns.
Front(q) == q.buf[q.rd]

\* The buffer after ImmediateRead.
ImmediateRead(q) == [q EXCEPT !.rd = (q.rd + 1) % kQueueSize, !.cnt = q.cnt - 1]

\* The unread elements, oldest first.
Contents(q) == [i \in 1 .. q.cnt |-> q.buf[(q.rd + i - 1) % kQueueSize]]

(***************************************************************************)
(* UiEventQueue                                                            *)
(***************************************************************************)
\* ScopedIrqBlocker sIrqBl; events_.Overwrite(e);
PushEventDropNewest(q, e) == IF q.cnt = kQueueSize THEN q ELSE Overwrite(q, e)
PushEvent(q, e) == Overwrite(q, e)

\* The Event each add* operation builds and hands to PushEvent.
addButtonPressedSwapped(button_id, num_successive_presses) ==
    Ev("BUTTON_PRESSED", num_successive_presses, button_id)
addButtonPressed(button_id, num_successive_presses) ==
    Ev("BUTTON_PRESSED", button_id, num_successive_presses)

addButtonReleased(button_id) == Ev("BUTTON_RELEASED", button_id, NoPayload)

addEncoderTurned(encoder_id, increments, steps_per_rev) ==
    Ev("ENCODER_TURNED", encoder_id, <<increments, steps_per_rev>>)

addEncoderActivityChanged(encoder_id, is_active) ==
    Ev("ENCODER_ACTIVITY_CHANGED", encoder_id, IF is_active THEN "ACTIVE" ELSE "INACTIVE")

addPotMoved(pot_id, new_position) == Ev("POT_MOVED", pot_id, new_position)

addPotActivityChanged(pot_id, is_active) ==
    Ev("POT_ACTIVITY_CHANGED", pot_id, IF is_active THEN "ACTIVE" ELSE "INACTIVE")

\* The value getAndRemoveNextEvent returns.
NextEvent(q) == IF isEmpty(q) THEN InvalidEvent ELSE Front(q)

getAndRemoveNextEventUnguarded(q) == ImmediateRead(q)
\* events_ after getAndRemoveNextEvent.
getAndRemoveNextEvent(q) == IF isEmpty(q) THEN q ELSE ImmediateRead(q)

isQueueEmpty(q) == isEmpty(q)

(***************************************************************************)
(* The calls a producer can make: <<operation, arguments>>.                *)
(***************************************************************************)
AddCalls ==
    {<<"addButtonPressed", id, 1>> : id \in {0, 1}}
    \cup {<<"addButtonReleased", 0>>}
    \cup {<<"addEncoderTurned", 0, -1, 24>>}
    \cup {<<"addEncoderActivityChanged", 0, TRUE>>}
    \cup {<<"addPotMoved", 0, 3>>}
    \cup {<<"addPotActivityChanged", 1, FALSE>>}

\* The event a call is expected to deliver: its type and its arguments.
Intended(c) ==
    CASE c[1] = "addButtonPressed" -> Ev("BUTTON_PRESSED", c[2], c[3])
      [] c[1] = "addButtonReleased" -> Ev("BUTTON_RELEASED", c[2], NoPayload)
      [] c[1] = "addEncoderTurned" -> Ev("ENCODER_TURNED", c[2], <<c[3], c[4]>>)
      [] c[1] = "addEncoderActivityChanged" ->
            Ev("ENCODER_ACTIVITY_CHANGED", c[2], IF c[3] THEN "ACTIVE" ELSE "INACTIVE")
      [] c[1] = "addPotMoved" -> Ev("POT_MOVED", c[2], c[3])
      [] c[1] = "addPotActivityChanged" ->
            Ev("POT_ACTIVITY_CHANGED", c[2], IF c[3] THEN "ACTIVE" ELSE "INACTIVE")

\* The Event the call c builds.
Built(c) ==
    CASE c[1] = "addButtonPressed" -> addButtonPressed(c[2], c[3])
      [] c[1] = "addButtonReleased" -> addButtonReleased(c[2])
      [] c[1] = "addEncoderTurned" -> addEncoderTurned(c[2], c[3], c[4])
      [] c[1] = "addEncoderActivityChanged" -> addEncoderActivityChanged(c[2], c[3])
      [] c[1] = "addPotMoved" -> addPotMoved(c[2], c[3])
      [] c[1] = "addPotActivityChanged" -> addPotActivityChanged(c[2], c[3])

\* The reference FIFO after a push: at most kQueueSize elements, the oldest dropped.
RefPush(s, e) == IF Len(s) = kQueueSize THEN Append(Tail(s), e) ELSE Append(s, e)

(***************************************************************************)
(* The queue used from the main loop only.                                 *)
(***************************************************************************)
InitQueue ==
    /\ events_ = EmptyRing
    /\ pushed = <<>>
    /\ popped = <<>>
    /\ ref = <<>>
    /\ lastRet = "none"
    /\ refRet = "none"
    /\ overflowed = FALSE
    /\ firstPopAt = -1

InitIrq ==
    /\ pc = "idle"
    /\ irqMasked = FALSE
    /\ loc = [e |-> Uninit, c |-> <<>>, w |-> 0, rd |-> 0, cnt |-> 0]

\* The bookkeeping of a completed push of the call c.
NotePush(c) ==
    /\ pushed' = Append(pushed, Intended(c))
    /\ ref' = RefPush(ref, Intended(c))
    /\ overflowed' = (overflowed \/ Len(ref) = kQueueSize)

\* One add* call, run to completion.
Push ==
    /\ Len(pushed) < MaxPushes
    /\ \E c \in AddCalls :
         /\ events_' = PushEvent(events_, Built(c))
         /\ NotePush(c)
    /\ UNCHANGED <<popped, lastRet, refRet, firstPopAt>>
    /\ UNCHANGED <<ivars, mvars, bvars, pvars, uvars>>

\* One getAndRemoveNextEvent call, run to completion.
Pop ==
    /\ lastRet' = NextEvent(events_)
    /\ events_' = getAndRemoveNextEvent(events_)
    /\ popped' = IF isEmpty(events_) THEN popped ELSE Append(popped, NextEvent(events_))
    /\ refRet' = IF ref = <<>> THEN InvalidEvent ELSE Head(ref)
    /\ ref' = IF ref = <<>> THEN ref ELSE Tail(ref)
    /\ firstPopAt' = IF firstPopAt = -1 THEN Len(pushed) ELSE firstPopAt
    /\ UNCHANGED <<pushed, overflowed>>
    /\ UNCHANGED <<ivars, mvars, bvars, pvars, uvars>>

\* One isQueueEmpty call.
QueryEmpty ==
    /\ lastRet' = isQueueEmpty(events_)
    /\ refRet' = (ref = <<>>)
    /\ UNCHANGED <<events_, pushed, popped, ref, overflowed, firstPopAt>>
    /\ UNCHANGED <<ivars, mvars, bvars, pvars, uvars>>

NextQueue ==
    \/ Push
    \/ Pop
    \/ QueryEmpty


(***************************************************************************)
(* The queue shared by the main loop and an interrupt handler.  The main   *)
(* loop's operations advance one memory access at a time; the interrupt    *)
(* handler runs whenever interrupts are not masked and runs to completion. *)
(***************************************************************************)
\* The add* calls of the main loop and of the interrupt handler.
MainCalls == {<<"addButtonPressed", 0, 1>>, <<"addButtonReleased", 1>>}

IsrCalls == {<<"addEncoderTurned", 0, -1, 24>>, <<"addPotMoved", 0, 3>>}

NoLocals == [e |-> Uninit, c |-> <<>>, w |-> 0, rd |-> 0, cnt |-> 0]

AddPcs == {"add_built", "add_locked", "add_hdr", "add_copied"}

\* Event e; e.type = ...; e.as_... = ...;
MainAddBuild ==
    /\ pc = "idle"
    /\ Len(pushed) < MaxPushes
    /\ \E c \in MainCalls : loc' = [loc EXCEPT !.e = Built(c), !.c = c]
    /\ pc' = "add_built"
    /\ UNCHANGED <<qvars, irqMasked>>
    /\ UNCHANGED <<mvars, bvars, pvars, uvars>>

\* ScopedIrqBlocker sIrqBl;
MainAddLockMissing ==
    /\ pc = "add_built"
    /\ pc' = "add_locked"
    /\ UNCHANGED <<qvars, irqMasked, loc>>
    /\ UNCHANGED <<mvars, bvars, pvars, uvars>>
MainAddLock ==
    /\ pc = "add_built"
    /\ irqMasked' = TRUE
    /\ pc' = "add_locked"
    /\ UNCHANGED <<qvars, loc>>
    /\ UNCHANGED <<mvars, bvars, pvars, uvars>>

\* Overwrite: read the indices, copy the first word of the Event into the slot.
MainAddCopyHead ==
    /\ pc = "add_locked"
    /\ loc' = [loc EXCEPT !.w = WritePos(events_), !.rd = events_.rd, !.cnt = events_.cnt]
    /\ events_' = [events_ EXCEPT !.buf[WritePos(events_)] =
                       [@ EXCEPT !.type = loc.e.type, !.id = loc.e.id]]
    /\ pc' = "add_hdr"
    /\ UNCHANGED <<pushed, popped, ref, lastRet, refRet, overflowed, firstPopAt, irqMasked>>
    /\ UNCHANGED <<mvars, bvars, pvars, uvars>>

\* Overwrite: copy the rest of the Event into the slot.
MainAddCopyRest ==
    /\ pc = "add_hdr"
    /\ events_' = [events_ EXCEPT !.buf[loc.w] = [@ EXCEPT !.payload = loc.e.payload]]
    /\ pc' = "add_copied"
    /\ UNCHANGED <<pushed, popped, ref, lastRet, refRet, overflowed, firstPopAt, irqMasked, loc>>
    /\ UNCHANGED <<mvars, bvars, pvars, uvars>>

\* Overwrite: store the index computed from the values read; ~ScopedIrqBlocker.
MainAddAdvance ==
    /\ pc = "add_copied"
    /\ events_' = Advance([events_ EXCEPT !.rd = loc.rd, !.cnt = loc.cnt])
    /\ NotePush(loc.c)
    /\ irqMasked' = FALSE
    /\ pc' = "idle"
    /\ loc' = NoLocals
    /\ UNCHANGED <<popped, lastRet, refRet, firstPopAt>>
    /\ UNCHANGED <<mvars, bvars, pvars, uvars>>

\* getAndRemoveNextEvent: ScopedIrqBlocker sIrqBl;
MainPopLock ==
    /\ pc = "idle"
    /\ irqMasked' = TRUE
    /\ pc' = "pop_locked"
    /\ UNCHANGED <<qvars, loc>>
    /\ UNCHANGED <<mvars, bvars, pvars, uvars>>

\* getAndRemoveNextEvent on an empty queue.
MainPopEmpty ==
    /\ pc = "pop_locked"
    /\ isEmpty(events_)
    /\ lastRet' = InvalidEvent
    /\ refRet' = IF ref = <<>> THEN InvalidEvent ELSE Head(ref)
    /\ ref' = IF ref = <<>> THEN ref ELSE Tail(ref)
    /\ irqMasked' = FALSE
    /\ pc' = "idle"
    /\ UNCHANGED <<events_, pushed, popped, overflowed, firstPopAt, loc>>
    /\ UNCHANGED <<mvars, bvars, pvars, uvars>>

\* ImmediateRead: read the indices, copy the first word of the slot.
MainPopCopyHead ==
    /\ pc = "pop_locked"
    /\ ~isEmpty(events_)
    /\ loc' = [loc EXCEPT !.rd = events_.rd, !.cnt = events_.cnt,
                          !.e = [@ EXCEPT !.type = Front(events_).type,
                                          !.id = Front(events_).id]]
    /\ pc' = "pop_hdr"
    /\ UNCHANGED <<qvars, irqMasked>>
    /\ UNCHANGED <<mvars, bvars, pvars, uvars>>

\* ImmediateRead: copy the rest of the slot.
MainPopCopyRest ==
    /\ pc = "pop_hdr"
    /\ loc' = [loc EXCEPT !.e = [@ EXCEPT !.payload = events_.buf[loc.rd].payload]]
    /\ pc' = "pop_copied"
    /\ UNCHANGED <<qvars, irqMasked>>
    /\ UNCHANGED <<mvars, bvars, pvars, uvars>>

\* ImmediateRead: store the index computed from the values read, return.
MainPopAdvance ==
    /\ pc = "pop_copied"
    /\ events_' = [events_ EXCEPT !.rd = (loc.rd + 1) % kQueueSize, !.cnt = loc.cnt - 1]
    /\ lastRet' = loc.e
    /\ popped' = Append(popped, loc.e)
    /\ refRet' = IF ref = <<>> THEN InvalidEvent ELSE Head(ref)
    /\ ref' = IF ref = <<>> THEN ref ELSE Tail(ref)
    /\ irqMasked' = FALSE
    /\ pc' = "idle"
    /\ loc' = NoLocals
    /\ UNCHANGED <<pushed, overflowed, firstPopAt>>
    /\ UNCHANGED <<mvars, bvars, pvars, uvars>>

\* isQueueEmpty: ScopedIrqBlocker sIrqBl;
MainEmptyLock ==
    /\ pc = "idle"
    /\ irqMasked' = TRUE
    /\ pc' = "empty_locked"
    /\ UNCHANGED <<qvars, loc>>
    /\ UNCHANGED <<mvars, bvars, pvars, uvars>>

\* isQueueEmpty: return events_.isEmpty();
MainEmptyRead ==
    /\ pc = "empty_locked"
    /\ lastRet' = isQueueEmpty(events_)
    /\ refRet' = (ref = <<>>)
    /\ irqMasked' = FALSE
    /\ pc' = "idle"
    /\ UNCHANGED <<events_, pushed, popped, ref, overflowed, firstPopAt, loc>>
    /\ UNCHANGED <<mvars, bvars, pvars, uvars>>

\* An interrupt handler calls add*: it preempts the main loop when interrupts are
\* not masked, and the main loop resumes when the handler has returned.
Isr ==
    /\ ~irqMasked
    /\ Len(pushed) + (IF pc \in AddPcs THEN 1 ELSE 0) < MaxPushes
    /\ \E c \in IsrCalls :
         /\ events_' = PushEvent(events_, Built(c))
         /\ NotePush(c)
    /\ UNCHANGED <<popped, lastRet, refRet, firstPopAt, ivars>>
    /\ UNCHANGED <<mvars, bvars, pvars, uvars>>

NextIrq ==
    \/ MainAddBuild
    \/ MainAddLock
    \/ MainAddCopyHead
    \/ MainAddCopyRest
    \/ MainAddAdvance
    \/ MainPopLock
    \/ MainPopEmpty
    \/ MainPopCopyHead
    \/ MainPopCopyRest
    \/ MainPopAdvance
    \/ MainEmptyLock
    \/ MainEmptyRead
    \/ Isr


(***************************************************************************)
(* ButtonMonitor<BackendType, numButtons>                                  *)
(***************************************************************************)
numButtons == 2

Buttons == 0 .. numButtons - 1

\* Conversion of an integer to int16_t / uint32_t / uint8_t.
ToInt16(x) == ((x + 32768) % 65536) - 32768

\* a - b in uint32_t arithmetic, for a, b < 2^31.
Uint32Sub(a, b) == IF a >= b THEN a - b ELSE ((a - b) + 2147483647) + 2147483647 + 2

ToUint8(x) == x % 256

\* The clock at the time of the monitor's Init, nothing posted yet.
InitMonitors(t) ==
    /\ sysTime = t
    /\ posted = <<>>
    /\ calls = 0

\* The state of a ButtonMonitor that takes no part in a specification.
NoButtonMonitor ==
    /\ timeout_ = 0
    /\ doubleClickTimeout_ = 0
    /\ buttonStates_ = <<>>
    /\ lastClickTimes_ = <<>>
    /\ numSuccessiveClicks_ = <<>>
    /\ lastCallSysTime_ = 0
    /\ lastRaw = <<>>
    /\ pressRun = <<>>
    /\ relRun = <<>>
    /\ lastEv = <<>>
    /\ edgeCount = <<>>
    /\ sinceEdge = <<>>
    /\ maxTd = 0

\* ButtonMonitor::Init(queue, backend, debounceTimeoutMs, doubleClickTimeoutMs) at time t.
ButtonInit(t, debounceTimeoutMs, doubleClickTimeoutMs) ==
    /\ InitMonitors(t)
    /\ timeout_ = debounceTimeoutMs
    /\ doubleClickTimeout_ = doubleClickTimeoutMs
    /\ buttonStates_ = [i \in Buttons |-> ToInt16(-debounceTimeoutMs)]
    /\ lastClickTimes_ = [i \in Buttons |-> 0]
    /\ numSuccessiveClicks_ = [i \in Buttons |-> 0]
    /\ lastCallSysTime_ = t
    /\ lastRaw = [i \in Buttons |-> FALSE]
    /\ pressRun = [i \in Buttons |-> -1]
    /\ relRun = [i \in Buttons |-> 0]
    /\ lastEv = [i \in Buttons |-> "none"]
    /\ edgeCount = [i \in Buttons |-> -1]
    /\ sinceEdge = [i \in Buttons |-> 0]
    /\ maxTd = 0

\* IsButtonPressed(buttonId)
IsButtonPressed(buttonId) ==
    IF buttonId >= numButtons THEN FALSE ELSE buttonStates_[buttonId] >= timeout_

\* PostButtonDownEvent(id, currentSystemTime) on the button record b:
\* the new record and the events added to the queue.
PostButtonDownEvent(b, id, currentSystemTime) ==
    LET timeDiff == Uint32Sub(currentSystemTime, b.lastClickTime)
        clicks == IF timeDiff <= doubleClickTimeout_
                  THEN ToUint8(b.numSuccessiveClicks + 1)
                  ELSE 1
    IN [b |-> [b EXCEPT !.numSuccessiveClicks = clicks,
                        !.lastClickTime = currentSystemTime],
        out |-> <<addButtonPressed(id, clicks)>>]

\* ProcessButton(id, isPressed, timeInMsSinceLastCall, currentSystemTime) on the button
\* record b = [buttonState, lastClickTime, numSuccessiveClicks].
ProcessButtonUnguarded(b, id, isPressed, timeInMsSinceLastCall, currentSystemTime) ==
    IF b.buttonState < 0 /\ ~isPressed
    THEN LET s == ToInt16(b.buttonState - timeInMsSinceLastCall)
         IN [b |-> [b EXCEPT !.buttonState = s],
             out |-> IF s + 1 <= -timeout_ /\ b.buttonState + 1 > -timeout_
                     THEN <<addButtonReleased(id)>> ELSE <<>>]
    ELSE IF b.buttonState < 0
    THEN IF 1 - 1 >= timeout_
         THEN PostButtonDownEvent([b EXCEPT !.buttonState = 1], id, currentSystemTime)
         ELSE [b |-> [b EXCEPT !.buttonState = 1], out |-> <<>>]
    ELSE IF isPressed
    THEN LET s == ToInt16(b.buttonState + timeInMsSinceLastCall)
         IN IF s - 1 >= timeout_ /\ b.buttonState - 1 < timeout_
            THEN PostButtonDownEvent([b EXCEPT !.buttonState = s], id, currentSystemTime)
            ELSE [b |-> [b EXCEPT !.buttonState = s], out |-> <<>>]
    ELSE [b |-> [b EXCEPT !.buttonState = -1],
          out |-> IF -1 + 1 <= -timeout_ THEN <<addButtonReleased(id)>> ELSE <<>>]
ProcessButton(b, id, isPressed, timeInMsSinceLastCall, currentSystemTime) ==
    IF b.buttonState < 0
    THEN IF ~isPressed
         THEN IF b.buttonState + 1 > -timeout_
              THEN LET s == ToInt16(b.buttonState - timeInMsSinceLastCall)
                   IN [b |-> [b EXCEPT !.buttonState = s],
                       out |-> IF s + 1 <= -timeout_
                               THEN <<addButtonReleased(id)>> ELSE <<>>]
              ELSE [b |-> b, out |-> <<>>]
         ELSE IF 1 - 1 >= timeout_
              THEN PostButtonDownEvent([b EXCEPT !.buttonState = 1], id, currentSystemTime)
              ELSE [b |-> [b EXCEPT !.buttonState = 1], out |-> <<>>]
    ELSE IF isPressed
         THEN IF b.buttonState - 1 < timeout_
              THEN LET s == ToInt16(b.buttonState + timeInMsSinceLastCall)
                   IN IF s - 1 >= timeout_
                      THEN PostButtonDownEvent([b EXCEPT !.buttonState = s], id,
                                               currentSystemTime)
                      ELSE [b |-> [b EXCEPT !.buttonState = s], out |-> <<>>]
              ELSE [b |-> b, out |-> <<>>]
         ELSE [b |-> [b EXCEPT !.buttonState = -1],
               out |-> IF -1 + 1 <= -timeout_ THEN <<addButtonReleased(id)>> ELSE <<>>]

\* The button record of button i.
ButtonRecord(i) ==
    [buttonState |-> buttonStates_[i], lastClickTime |-> lastClickTimes_[i],
     numSuccessiveClicks |-> numSuccessiveClicks_[i]]

\* The events of the buttons 0 .. n-1, in the order of the loop of Process().
RECURSIVE PostedBy(_, _)
PostedBy(res, n) == IF n = 0 THEN <<>> ELSE PostedBy(res, n - 1) \o res[n - 1].out

\* The queue after the events of the sequence evs were added to it, in order.
RECURSIVE PushAll(_, _)
PushAll(q, evs) == IF evs = <<>> THEN q ELSE PushAll(PushEvent(q, Head(evs)), Tail(evs))

\* The events of the sequence evs that carry the control id.
EventsOf(evs, id) == SelectSeq(evs, LAMBDA e : e.id = id)

\* ButtonMonitor::Process(), called td ticks after the last call, the backend
\* reporting the raw states raw.
ProcessWith(td, raw) ==
    LET now == sysTime + td
        timeDiff == Uint32Sub(now, lastCallSysTime_)
        res == [i \in Buttons |-> ProcessButton(ButtonRecord(i), i, raw[i], timeDiff, now)]
        out == PostedBy(res, numButtons)
    IN /\ sysTime' = now
       /\ lastCallSysTime_' = now
       /\ buttonStates_' = [i \in Buttons |-> res[i].b.buttonState]
       /\ lastClickTimes_' = [i \in Buttons |-> res[i].b.lastClickTime]
       /\ numSuccessiveClicks_' = [i \in Buttons |-> res[i].b.numSuccessiveClicks]
       /\ events_' = PushAll(events_, out)
       /\ posted' = out
       /\ lastRaw' = raw
       /\ pressRun' = [i \in Buttons |->
                         IF ~raw[i] THEN -1
                         ELSE IF pressRun[i] >= 0 THEN pressRun[i] + td ELSE 0]
       /\ relRun' = [i \in Buttons |->
                       IF raw[i] THEN -1
                       ELSE IF relRun[i] >= 0 THEN relRun[i] + td ELSE 0]
       /\ lastEv' = [i \in Buttons |->
                       IF res[i].out = <<>> THEN lastEv[i] ELSE res[i].out[1].type]
       /\ edgeCount' = [i \in Buttons |->
                          IF res[i].out # <<>> /\ res[i].out[1].type = "BUTTON_PRESSED"
                          THEN res[i].out[1].payload ELSE edgeCount[i]]
       /\ sinceEdge' = [i \in Buttons |->
                          IF res[i].out # <<>> /\ res[i].out[1].type = "BUTTON_PRESSED"
                          THEN 0 ELSE sinceEdge[i] + td]
       /\ maxTd' = IF td > maxTd THEN td ELSE maxTd
       /\ UNCHANGED <<timeout_, doubleClickTimeout_, pushed, popped, ref, lastRet, refRet,
                      overflowed, firstPopAt, ivars, pvars, uvars>>

\* The numbers of ticks that can pass between two Process() calls.
TickSteps == {0, 1, 3}
\* Largest number of Process() calls in one behaviour.
MaxCalls == 5

\* The debounce timeouts, double click timeouts and start times of the model.
DebounceTimeouts == {0, 2}

DoubleClickTimeouts == {2}

StartTimes == {0, 5}

kNumPots == 2

Pots == 0 .. kNumPots - 1

\* The state of a PotMonitor that takes no part in a specification.
NoPotMonitor ==
    /\ dead_band_ = 0
    /\ dead_band_idle_ = 0
    /\ potTimeout_ = 0
    /\ last_value_ = <<>>
    /\ timeout_counter_ = <<>>
    /\ last_time_ = 0
    /\ potRead = <<>>
    /\ lastActivity = <<>>

InitButton ==
    /\ InitQueue
    /\ InitIrq
    /\ NoPotMonitor
    /\ NoUi
    /\ \E t \in StartTimes, d \in DebounceTimeouts, c \in DoubleClickTimeouts :
         ButtonInit(t, d, c)

Process ==
    /\ calls < MaxCalls
    /\ calls' = calls + 1
    /\ \E td \in TickSteps, raw \in [Buttons -> BOOLEAN] : ProcessWith(td, raw)

(***************************************************************************)
(* PotMonitor<BackendType, kNumPots>.  Positions and dead bands are        *)
(* multiples of one step of the converter, on which last_value_ - value    *)
(* is exact.                                                               *)
(***************************************************************************)
\* PotMonitor::init(queue, backend, idle_timeout, dead_band_idle, dead_band) at time t.
PotInit(t, idle_timeout, dead_band_idle, dead_band) ==
    /\ InitMonitors(t)
    /\ dead_band_ = dead_band
    /\ dead_band_idle_ = dead_band_idle
    /\ potTimeout_ = idle_timeout
    /\ last_time_ = t
    /\ last_value_ = [i \in Pots |-> 0]
    /\ timeout_counter_ = [i \in Pots |-> 0]
    /\ potRead = [i \in Pots |-> 0]
    /\ lastActivity = [i \in Pots |-> "none"]

\* isMoving(pot_id)
isMovingInclusive(pot_id) ==
    IF pot_id >= kNumPots THEN FALSE ELSE timeout_counter_[pot_id] <= potTimeout_
isMoving(pot_id) ==
    IF pot_id >= kNumPots THEN FALSE ELSE timeout_counter_[pot_id] < potTimeout_

\* getCurrentPotValue(pot_id)
getCurrentPotValue(pot_id) == IF pot_id >= kNumPots THEN -1 ELSE last_value_[pot_id]

\* The test of the moving branch: (delta > dead_band_) || (delta < dead_band__),
\* the second operand read as the member dead_band_.
LeftDeadBandSymmetric(delta) == (delta > dead_band_) \/ (delta < -dead_band_)
LeftDeadBand(delta) == (delta > dead_band_) \/ (delta < dead_band_)

\* The test of the idle branch: (delta > dead_band_idle_) || (delta < -dead_band_idle_)
LeftIdleDeadBandUpOnly(delta) == delta < -dead_band_idle_
LeftIdleDeadBand(delta) == (delta > dead_band_idle_) \/ (delta < -dead_band_idle_)

\* processPot(id, value, time_diff) on the pot record p = [last_value, timeout_counter]:
\* the new record and the events added to the queue.
processPot(p, id, value, time_diff) ==
    LET delta == p.last_value - value
    IN IF p.timeout_counter < potTimeout_
       THEN IF LeftDeadBand(delta)
            THEN [p |-> [last_value |-> value, timeout_counter |-> 0],
                  out |-> <<addPotMoved(id, value)>>]
            ELSE LET c == p.timeout_counter + time_diff
                 IN [p |-> [p EXCEPT !.timeout_counter = c],
                     out |-> IF c >= potTimeout_
                             THEN <<addPotActivityChanged(id, FALSE)>> ELSE <<>>]
       ELSE IF LeftIdleDeadBand(delta)
            THEN [p |-> [last_value |-> value, timeout_counter |-> 0],
                  out |-> <<addPotActivityChanged(id, TRUE), addPotMoved(id, value)>>]
            ELSE [p |-> p, out |-> <<>>]

\* PotMonitor::process(), called td ticks after the last call, the backend giving
\* the values val.
PotProcessWith(td, val) ==
    LET now == sysTime + td
        time_diff == Uint32Sub(now, last_time_)
        res == [i \in Pots |->
                  processPot([last_value |-> last_value_[i],
                              timeout_counter |-> timeout_counter_[i]],
                             i, val[i], time_diff)]
        out == PostedBy(res, kNumPots)
    IN /\ sysTime' = now
       /\ last_time_' = now
       /\ last_value_' = [i \in Pots |-> res[i].p.last_value]
       /\ timeout_counter_' = [i \in Pots |-> res[i].p.timeout_counter]
       /\ events_' = PushAll(events_, out)
       /\ posted' = out
       /\ potRead' = val
       /\ lastActivity' =
              [i \in Pots |->
                  LET changes == SelectSeq(res[i].out,
                                           LAMBDA e : e.type = "POT_ACTIVITY_CHANGED")
                  IN IF changes = <<>> THEN lastActivity[i]
                     ELSE changes[Len(changes)].payload]
       /\ UNCHANGED <<dead_band_, dead_band_idle_, potTimeout_, pushed, popped, ref,
                      lastRet, refRet, overflowed, firstPopAt, ivars, bvars,
                      uvars>>

\* The positions the backend can give, the idle timeouts and the dead bands.
PotValues == 0 .. 3

IdleTimeouts == {0, 2}

\* Largest number of process() calls of the pot monitor in one behaviour.
MaxPotCalls == 4

InitPot ==
    /\ InitQueue
    /\ InitIrq
    /\ NoButtonMonitor
    /\ NoUi
    /\ \E t \in StartTimes, idle_timeout \in IdleTimeouts : PotInit(t, idle_timeout, 2, 1)

PotProcess ==
    /\ calls < MaxPotCalls
    /\ calls' = calls + 1
    /\ \E td \in TickSteps, val \in [Pots -> PotValues] : PotProcessWith(td, val)

SpecPot == InitPot /\ [][PotProcess]_vars

\* The variables of the monitors, for the specifications of the queue alone.
NoMonitors == InitMonitors(0) /\ NoButtonMonitor /\ NoPotMonitor

\* The queue after its construction, no monitor attached to it.
InitQueueOnly == InitQueue /\ InitIrq /\ NoMonitors /\ NoUi

SpecQueue == InitQueueOnly /\ [][NextQueue]_vars

SpecIrq == InitQueueOnly /\ [][NextIrq]_vars

SpecButton == InitButton /\ [][Process]_vars

\* A main loop that polls faster than the system tick, debouncing switched off,
\* button 0 operated.
InitClicks == InitQueue /\ InitIrq /\ NoPotMonitor /\ NoUi /\ ButtonInit(0, 0, 2)

ProcessFast ==
    /\ \E raw \in {r \in [Buttons -> BOOLEAN] : \A i \in Buttons : i > 0 => ~r[i]} :
         ProcessWith(0, raw)
    /\ UNCHANGED calls

SpecClicks == InitClicks /\ [][ProcessFast]_vars

(***************************************************************************)
(* Properties of the event queue.                                          *)
(***************************************************************************)
Range(s) == {s[i] : i \in 1 .. Len(s)}

LastOf(s, n) == SubSeq(s, Len(s) - n + 1, Len(s))

\* C1: as long as no add* has run on a full queue, the events returned by the pops
\* are the pushed events in push order, each once and unchanged: the pops so far are
\* a prefix of the push history and the unread events are the rest of it.
C1_FifoOrder ==
    ~overflowed =>
        /\ Len(popped) <= Len(pushed)
        /\ popped = SubSeq(pushed, 1, Len(popped))
        /\ Contents(events_) = SubSeq(pushed, Len(popped) + 1, Len(pushed))

\* C1 witness: pushes and pops interleaved without overflow, four events delivered.
C1_Witness ==
    /\ ~overflowed
    /\ Len(popped) = MaxPushes
    /\ firstPopAt = 1
    /\ popped[1].type = "BUTTON_PRESSED"
    /\ popped[2].type = "ENCODER_TURNED"

\* C2: kQueueSize + k pushes (k >= 1) into the empty queue and no pop before the last
\* push: the pops and the unread events together are the last kQueueSize events pushed,
\* in push order, so popping until empty yields exactly those.
C2_OverflowKeepsNewest ==
    (Len(pushed) > kQueueSize /\ firstPopAt \in {-1, Len(pushed)}) =>
        /\ popped \o Contents(events_) = LastOf(pushed, kQueueSize)
        /\ isQueueEmpty(events_) => Len(popped) = kQueueSize

\* C2 witness: kQueueSize + 2 pushes, then popped until empty.
C2_Witness ==
    /\ Len(pushed) = kQueueSize + 2
    /\ firstPopAt = Len(pushed)
    /\ isQueueEmpty(events_)
    /\ Len(popped) = kQueueSize

\* C3: between two operations of the main loop the queue holds what the reference
\* FIFO holds after the same operations run one after the other, every call returned
\* what the reference returned, and every popped event is an event that was pushed.
C3_Linearizable ==
    /\ Range(popped) \subseteq Range(pushed)
    /\ pc = "idle" =>
        /\ Contents(events_) = ref
        /\ lastRet = refRet

\* C3 witness: the interrupt handler has pushed while the main loop was between the
\* construction of its event and the critical section, and both events were popped.
C3_Witness ==
    /\ pc = "idle"
    /\ Len(popped) >= 2
    /\ popped[1].type = "ENCODER_TURNED"
    /\ popped[2].type = "BUTTON_PRESSED"
    /\ overflowed

(***************************************************************************)
(* Properties of the button monitor.                                       *)
(***************************************************************************)
\* The types of the events of evs that carry the control id.
TypesOf(evs, id) == [k \in 1 .. Len(EventsOf(evs, id)) |-> EventsOf(evs, id)[k].type]

\* C4: a ButtonPressed event is posted only when the raw state was read pressed on
\* every Process() call over at least timeout_ ticks up to the event, a ButtonReleased
\* event only when it was read released over at least timeout_ ticks.
C4_DebouncedEdgesOnly ==
    \A i \in Buttons :
        /\ "BUTTON_PRESSED" \in Range(TypesOf(posted, i)) => pressRun[i] >= timeout_
        /\ "BUTTON_RELEASED" \in Range(TypesOf(posted, i)) => relRun[i] >= timeout_

\* C5: the click count of a ButtonPressed event is the count of the previous
\* ButtonPressed event of that button plus one when at most doubleClickTimeout_ ticks
\* lie between the two events, and 1 otherwise or when there was no previous one.
C5_ClickCount ==
    [][\A i \in Buttons :
         \A k \in 1 .. Len(EventsOf(posted', i)) :
             EventsOf(posted', i)[k].type = "BUTTON_PRESSED" =>
                 EventsOf(posted', i)[k].payload =
                     IF edgeCount[i] # -1
                        /\ sinceEdge[i] + (sysTime' - sysTime) <= doubleClickTimeout_
                     THEN edgeCount[i] + 1
                     ELSE 1]_vars

\* C6: with timeout_ = 0 a Process() call posts for a button exactly one event when
\* its raw state differs from the one the previous call read (all released at Init),
\* ButtonPressed or ButtonReleased by the direction of the change, and none otherwise.
C6_NoDebounceReportsEveryChange ==
    [][timeout_ = 0 =>
         \A i \in Buttons :
             TypesOf(posted', i) =
                 IF lastRaw'[i] = lastRaw[i] THEN <<>>
                 ELSE IF lastRaw'[i] THEN <<"BUTTON_PRESSED">>
                 ELSE <<"BUTTON_RELEASED">>]_vars

\* C7: IsButtonPressed(id) is true exactly when the most recent event posted for the
\* button is ButtonPressed.
C7_IsButtonPressedIsDebounced ==
    \A i \in Buttons : IsButtonPressed(i) <=> lastEv[i] = "BUTTON_PRESSED"

Abs(x) == IF x < 0 THEN -x ELSE x

\* What process() does for the idle pot i when it reads a value inside the idle dead
\* band of the last reported value (nothing), and when it reads one outside of it
\* (PotActivityChanged(i, active), then PotMoved(i, value)).
IdleStep(i) ==
    IF Abs(potRead'[i] - last_value_[i]) <= dead_band_idle_
    THEN /\ EventsOf(posted', i) = <<>>
         /\ last_value_'[i] = last_value_[i]
    ELSE /\ EventsOf(posted', i) = <<Ev("POT_ACTIVITY_CHANGED", i, "ACTIVE"),
                                     Ev("POT_MOVED", i, potRead'[i])>>
         /\ last_value_'[i] = potRead'[i]

\* C9 as stated: a process() call on an idle pot posts nothing while the value read
\* stays inside the idle dead band, and on the first read outside of it posts
\* PotActivityChanged(active), then PotMoved, and puts the pot in the moving state.
C9_IdlePotLeavesDeadBand ==
    [][\A i \in Pots :
         ~isMoving(i) =>
             /\ IdleStep(i)
             /\ Abs(potRead'[i] - last_value_[i]) > dead_band_idle_ => isMoving(i)']_vars

\* C9 amended: the same, the pot being put in the moving state when the idle timeout
\* is greater than 0; with an idle timeout of 0 it stays idle.
C9_IdlePotLeavesDeadBandAmended ==
    [][\A i \in Pots :
         ~isMoving(i) =>
             /\ IdleStep(i)
             /\ Abs(potRead'[i] - last_value_[i]) > dead_band_idle_ =>
                    (isMoving(i)' <=> potTimeout_ > 0)]_vars

\* C9 witness: pot 0 went idle after its timeout of 2 ticks and the last process()
\* read a value outside the idle dead band: it has posted the two events and moves.
C9_Witness ==
    /\ potTimeout_ = 2
    /\ calls = 3
    /\ EventsOf(posted, 0) = <<Ev("POT_ACTIVITY_CHANGED", 0, "ACTIVE"), Ev("POT_MOVED", 0, 0)>>
    /\ isMoving(0)
    /\ getCurrentPotValue(0) = 0

\* C10: a process() call on a moving pot posts PotMoved(id, value) exactly when
\* |value - last reported value| > dead_band_; then the last reported value becomes
\* value and the idle counter 0; otherwise no PotMoved is posted and the last reported
\* value is unchanged.
C10_MovingPotDeadBand ==
    [][\A i \in Pots :
         isMoving(i) =>
             IF Abs(potRead'[i] - last_value_[i]) > dead_band_
             THEN /\ EventsOf(posted', i) = <<Ev("POT_MOVED", i, potRead'[i])>>
                  /\ getCurrentPotValue(i)' = potRead'[i]
                  /\ timeout_counter_'[i] = 0
             ELSE /\ Ev("POT_MOVED", i, potRead'[i]) \notin Range(posted')
                  /\ "POT_MOVED" \notin Range(TypesOf(posted', i))
                  /\ getCurrentPotValue(i)' = getCurrentPotValue(i)]_vars

\* C11: a process() call on a moving pot whose value read is within dead_band_ of the
\* last reported value adds the elapsed ticks to the idle counter; the call in which
\* the counter reaches the idle timeout posts exactly PotActivityChanged(id, inactive)
\* and makes the pot idle, an earlier one posts nothing; a call on an idle pot posts
\* no inactive event.
C11_MovingPotBecomesIdle ==
    [][\A i \in Pots :
         /\ (isMoving(i) /\ Abs(potRead'[i] - last_value_[i]) <= dead_band_) =>
                /\ timeout_counter_'[i] = timeout_counter_[i] + (sysTime' - sysTime)
                /\ IF timeout_counter_'[i] >= potTimeout_
                   THEN /\ EventsOf(posted', i) = <<Ev("POT_ACTIVITY_CHANGED", i, "INACTIVE")>>
                        /\ ~isMoving(i)'
                   ELSE EventsOf(posted', i) = <<>>
         /\ ~isMoving(i) =>
                Ev("POT_ACTIVITY_CHANGED", i, "INACTIVE") \notin Range(EventsOf(posted', i))]_vars

(***************************************************************************)
(* Stack<T, kBufferSize>  (util_stack.h), as far as the dispatcher uses it *)
(***************************************************************************)
EmptyStack(kBufferSize) ==
    [buffer_ |-> [i \in 0 .. kBufferSize - 1 |-> 0], buffer_head_ |-> 0]

isFull(st) == st.buffer_head_ = Cardinality(DOMAIN st.buffer_)

getNumElements(st) == st.buffer_head_

pushBack(st, element_to_add) ==
    IF ~isFull(st)
    THEN [buffer_ |-> [st.buffer_ EXCEPT ![st.buffer_head_] = element_to_add],
          buffer_head_ |-> st.buffer_head_ + 1]
    ELSE st

\* The elements 0 .. getNumElements() - 1, bottom first.
Elements(st) == [k \in 1 .. getNumElements(st) |-> st.buffer_[k - 1]]

(***************************************************************************)
(* UI: the page stack.  Two dispatchers share the pages.                   *)
(***************************************************************************)
\* UI::kMaxNumPages (32 in the source), scaled down.
kMaxNumPages == 2

Dispatchers == {"A", "B"}

\* The UiPage objects of the program: one more than the scaled stack holds.
Pages == 1 .. 3

nullptr == "nullptr"

\* The dispatchers and pages an operation works on; hooks collects the hook calls.
UiState == [pages_ |-> pages_, parent_ |-> parent_, hooks |-> <<>>]

\* UI::openPage(page) on the dispatcher ui
openPageNoFullCheck(u, ui, page) ==
    IF u.parent_[page] # nullptr THEN u
    ELSE [pages_ |-> [u.pages_ EXCEPT ![ui] = pushBack(@, page)],
          parent_ |-> [u.parent_ EXCEPT ![page] = ui],
          hooks |-> Append(u.hooks, <<"onShow", page>>)]
openPage(u, ui, page) ==
    IF u.parent_[page] # nullptr THEN u
    ELSE IF isFull(u.pages_[ui]) THEN u
    ELSE [pages_ |-> [u.pages_ EXCEPT ![ui] = pushBack(@, page)],
          parent_ |-> [u.parent_ EXCEPT ![page] = ui],
          hooks |-> Append(u.hooks, <<"onShow", page>>)]

\* UI::removePage(page)
removePage(u, page) ==
    [u EXCEPT !.hooks = Append(@, <<"onHide", page>>), !.parent_[page] = nullptr]

\* closePage: the search for the page from the top of the stack downwards.  The loop
\* counter is unsigned, so the search ends only by finding the page; -1 stands for
\* a search that has left the array, which no page whose parent_ is this dispatcher
\* can cause: such a page was pushed and the stack never shrinks.
FindPage(st, page) ==
    LET found == {i \in 0 .. getNumElements(st) - 1 : st.buffer_[i] = page}
    IN IF found = {} THEN -1 ELSE CHOOSE i \in found : \A j \in found : j <= i

\* closePage: for(i = page_index; i < getNumElements() - 1; i++) pages_[i] = pages_[i + 1];
MovePagesDown(st, page_index) ==
    [st EXCEPT !.buffer_ =
        [i \in DOMAIN st.buffer_ |->
            IF i >= page_index /\ i < getNumElements(st) - 1
            THEN st.buffer_[i + 1] ELSE st.buffer_[i]]]

\* UI::closePage(page) on the dispatcher ui
closePage(u, ui, page) ==
    IF u.parent_[page] # ui THEN u
    ELSE LET st == u.pages_[ui]
             page_index == FindPage(st, page)
         IN IF page_index < 0 THEN u
            ELSE removePage(
                    [u EXCEPT !.pages_[ui] =
                        IF page_index < getNumElements(st) - 1
                        THEN MovePagesDown(st, page_index) ELSE st],
                    page)

\* UI::UI() of both dispatchers and UiPage::UiPage() of every page.
InitPages ==
    /\ InitQueue
    /\ InitIrq
    /\ NoMonitors
    /\ NoDispatch
    /\ NoStack
    /\ pages_ = [ui \in Dispatchers |-> EmptyStack(kMaxNumPages)]
    /\ parent_ = [page \in Pages |-> nullptr]
    /\ hooks = <<>>
    /\ lastOp = [op |-> "none", ui |-> "A", page |-> 1]
    /\ snap = <<>>

\* The bookkeeping of an operation that has led from UiState to r.
Operated(op, ui, page, r) ==
    /\ pages_' = r.pages_
    /\ parent_' = r.parent_
    /\ hooks' = r.hooks
    /\ lastOp' = [op |-> op, ui |-> ui, page |-> page]
    /\ snap' = Elements(pages_[ui])
    /\ invoked' = <<>>
    /\ UNCHANGED <<qvars, ivars, mvars, bvars, pvars>>
    /\ UNCHANGED <<is_muted_, queue_events_, bttn_ids_, button_state_buffer_, displays_,
                   last_display_update_times_, redraws, holding, held, redrawCount,
                   everyTick, mnvars>>
    /\ painted' = <<>>
    /\ queried' = <<>>
    /\ UNCHANGED svars

OpenPage ==
    \E ui \in Dispatchers, page \in Pages :
        Operated("openPage", ui, page, openPage(UiState, ui, page))

ClosePage ==
    \E ui \in Dispatchers, page \in Pages :
        Operated("closePage", ui, page, closePage(UiState, ui, page))

NextPages ==
    \/ OpenPage
    \/ ClosePage

SpecPages == InitPages /\ [][NextPages]_vars

(***************************************************************************)
(* Properties of the page stack.                                           *)
(***************************************************************************)
\* The sequence s without the element x.
Without(s, x) == LET Keep(y) == y # x IN SelectSeq(s, Keep)

\* The pages on the stack of the dispatcher ui, bottom first.
StackOf(ui) == Elements(pages_[ui])

\* C12: closePage(p) on a page owned by the dispatcher leaves a stack that holds one
\* element fewer and not p, the other pages in their order; p's parent is null and
\* onHide ran once.  closePage on a page the dispatcher does not own changes nothing
\* and calls no hook.
C12_ClosePageRemoves ==
    [][lastOp'.op = "closePage" =>
         LET ui == lastOp'.ui
             p == lastOp'.page
         IN IF parent_[p] = ui
            THEN /\ Len(Elements(pages_'[ui])) = Len(StackOf(ui)) - 1
                 /\ p \notin Range(Elements(pages_'[ui]))
                 /\ Elements(pages_'[ui]) = Without(StackOf(ui), p)
                 /\ parent_'[p] = nullptr
                 /\ hooks' = << <<"onHide", p>> >>
            ELSE /\ UNCHANGED <<pages_, parent_>>
                 /\ hooks' = <<>>]_vars

\* C13: openPage(p) of a page without parent on a stack that is not full, followed
\* at once by closePage(p), leaves the stack with the pages it held before the
\* openPage, in the same order, and p's parent null.
C13_OpenThenCloseRestores ==
    [][(/\ lastOp.op = "openPage"
        /\ hooks = << <<"onShow", lastOp.page>> >>
        /\ lastOp'.op = "closePage"
        /\ lastOp'.ui = lastOp.ui
        /\ lastOp'.page = lastOp.page) =>
           /\ Elements(pages_'[lastOp.ui]) = snap
           /\ parent_'[lastOp.page] = nullptr]_vars

\* C14: no stack holds a page twice, every page on a stack has that dispatcher as
\* its parent, and a page whose parent is a dispatcher is on that dispatcher's stack.
C14_StackInvariant ==
    \A ui \in Dispatchers :
        /\ \A i, j \in 1 .. Len(StackOf(ui)) : StackOf(ui)[i] = StackOf(ui)[j] => i = j
        /\ \A p \in Range(StackOf(ui)) : parent_[p] = ui
        /\ \A p \in Pages : parent_[p] = ui => p \in Range(StackOf(ui))

\* C15: openPage(p) changes nothing and calls no hook when the stack holds
\* kMaxNumPages pages or p has a parent; otherwise p becomes the top of the stack,
\* its parent the dispatcher, and onShow runs once.
C15_OpenPageGuards ==
    [][lastOp'.op = "openPage" =>
         LET ui == lastOp'.ui
             p == lastOp'.page
         IN IF Len(StackOf(ui)) = kMaxNumPages \/ parent_[p] # nullptr
            THEN /\ UNCHANGED <<pages_, parent_>>
                 /\ hooks' = <<>>
            ELSE /\ Elements(pages_'[ui]) = Append(StackOf(ui), p)
                 /\ parent_' = [parent_ EXCEPT ![p] = ui]
                 /\ \A other \in Dispatchers \ {ui} : pages_'[other] = pages_[other]
                 /\ hooks' = << <<"onShow", p>> >>]_vars

\* C15 witness: an openPage of a page without parent was refused by a full stack
\* after both kinds of openPage had happened on it.
C15_Witness ==
    /\ lastOp.op = "openPage"
    /\ hooks = <<>>
    /\ parent_[lastOp.page] = nullptr
    /\ StackOf(lastOp.ui) = <<1, 2>>
    /\ parent_[1] = lastOp.ui
    /\ parent_[2] = lastOp.ui

\* C16: no page is on the stacks of both dispatchers, and a closePage that follows
\* a closePage of the same page changes nothing and does not call onHide.
C16_OneDispatcherPerPage ==
    /\ [](\A p \in Pages : ~(p \in Range(StackOf("A")) /\ p \in Range(StackOf("B"))))
    /\ [][(/\ lastOp.op = "closePage"
           /\ lastOp'.op = "closePage"
           /\ lastOp'.page = lastOp.page) =>
              /\ UNCHANGED <<pages_, parent_>>
              /\ hooks' = <<>>]_vars

(***************************************************************************)
(* UI: input dispatch and display redraw.  The dispatcher "A" reads the    *)
(* queue; a page's handlers answer as resp says: the value they return and *)
(* whether they close their page (UiPage::close) before returning.         *)
(***************************************************************************)
kInvalidButtonId == 65535

kMaxNumDisplays == 8

\* The num_buttons argument of UI::init.
num_buttons_ == 2

Roles == {"ok", "cancel", "func", "LEFT", "RIGHT", "UP", "DOWN"}

\* UI::init: the ids of all roles
UnboundIds == [role \in Roles |-> kInvalidButtonId]

\* setOkButtonId, setCancelButtonId, setFunctionButtonId, setArrowButtonId
setButtonId(ids, role, button_id) ==
    [ids EXCEPT ![role] = IF button_id >= num_buttons_ THEN kInvalidButtonId ELSE button_id]

\* UI::addDisplay(display), the display given by its update rate
addDisplay(ds, rate) == IF Len(ds) # kMaxNumDisplays THEN Append(ds, rate) ELSE ds

\* UiPage::close()
close(u, page) ==
    IF u.parent_[page] # nullptr THEN closePage(u, u.parent_[page], page) ELSE u

\* What a handler does: a handler that closes its page has consumed the event.
Responses == {r \in [ret : BOOLEAN, close : BOOLEAN] : r.close => r.ret}

\* for(i = getNumElements() - 1; i >= 0; i--) if(pages_[i]->handler(...)) break;
RECURSIVE Forward(_, _, _, _, _, _)
Forward(u, ui, i, call, resp, log) ==
    IF i < 0 THEN [u |-> u, calls |-> log]
    ELSE LET page == u.pages_[ui].buffer_[i]
             after == IF resp[page].close THEN close(u, page) ELSE u
             done == Append(log, [index |-> i, page |-> page, call |-> call,
                                  ret |-> resp[page].ret])
         IN IF resp[page].ret THEN [u |-> after, calls |-> done]
            ELSE Forward(after, ui, i - 1, call, resp, done)

\* forwardToButtonHandler: the callback chosen for the button id
ButtonHandler(button_id, number_of_presses) ==
    IF button_id = bttn_ids_["ok"] THEN <<"onOkayButton", number_of_presses>>
    ELSE IF button_id = bttn_ids_["cancel"] THEN <<"onCancelButton", number_of_presses>>
    ELSE IF button_id = bttn_ids_["func"] THEN <<"onFunctionButton", number_of_presses>>
    ELSE IF button_id = bttn_ids_["LEFT"] THEN <<"onArrowButton", "LEFT", number_of_presses>>
    ELSE IF button_id = bttn_ids_["RIGHT"] THEN <<"onArrowButton", "RIGHT", number_of_presses>>
    ELSE IF button_id = bttn_ids_["UP"] THEN <<"onArrowButton", "UP", number_of_presses>>
    ELSE IF button_id = bttn_ids_["DOWN"] THEN <<"onArrowButton", "DOWN", number_of_presses>>
    ELSE <<"onButton", button_id, number_of_presses>>

\* forwardToButtonHandler(const uint16_t button_id, const uint8_t number_of_presses)
forwardToButtonHandler(u, ui, button_id, number_of_presses, resp) ==
    Forward(u, ui, getNumElements(u.pages_[ui]) - 1,
            ButtonHandler(button_id, ToUint8(number_of_presses)), resp, <<>>)

\* UI::processEvent(e): the dispatcher, the button state buffer and the calls made
processEvent(u, ui, bsb, e, resp) ==
    LET top == getNumElements(u.pages_[ui]) - 1
        Mark(val) == IF e.id < num_buttons_ THEN [bsb EXCEPT ![e.id] = val] ELSE bsb
        Res(w, b) == [u |-> w.u, bsb |-> b, calls |-> w.calls]
    IN CASE e.type = "BUTTON_PRESSED" ->
              Res(forwardToButtonHandler(u, ui, e.id, e.payload, resp), Mark(1))
         [] e.type = "BUTTON_RELEASED" ->
              Res(forwardToButtonHandler(u, ui, e.id, 0, resp), Mark(0))
         [] e.type = "ENCODER_TURNED" ->
              Res(Forward(u, ui, top, <<"onEncoderTurned", e.id, e.payload[1], e.payload[2]>>,
                          resp, <<>>), bsb)
         [] e.type = "ENCODER_ACTIVITY_CHANGED" ->
              Res(Forward(u, ui, top, <<"onEncoderActivityChanged", e.id, e.payload = "ACTIVE">>,
                          resp, <<>>), bsb)
         [] e.type = "POT_MOVED" ->
              Res(Forward(u, ui, top, <<"onPotMoved", e.id, e.payload>>, resp, <<>>), bsb)
         [] e.type = "POT_ACTIVITY_CHANGED" ->
              Res(Forward(u, ui, top, <<"onPotActivityChanged", e.id, e.payload = "ACTIVE">>,
                          resp, <<>>), bsb)
         [] OTHER -> [u |-> u, bsb |-> bsb, calls |-> <<>>]

\* process: while(!isQueueEmpty()) { e = getAndRemoveNextEvent();
\*                                   if(e.type != INVALID) processEvent(e); }
RECURSIVE Dispatch(_, _, _, _, _, _)
Dispatch(q, u, ui, bsb, resp, log) ==
    IF isQueueEmpty(q) THEN [q |-> q, u |-> u, bsb |-> bsb, log |-> log]
    ELSE LET e == NextEvent(q)
             r == processEvent(u, ui, bsb, e, resp)
         IN IF e.type # "INVALID"
            THEN Dispatch(getAndRemoveNextEvent(q), r.u, ui, r.bsb, resp,
                          Append(log, [e |-> e, stack |-> Elements(u.pages_[ui]),
                                       open |-> {p \in Pages : u.parent_[p] = ui},
                                       calls |-> r.calls]))
            ELSE Dispatch(getAndRemoveNextEvent(q), u, ui, bsb, resp, log)

\* process: while(!isQueueEmpty()) getAndRemoveNextEvent();
DropNone(q) == q
RECURSIVE DropEvents(_)
DropEvents(q) == IF isQueueEmpty(q) THEN q ELSE DropEvents(getAndRemoveNextEvent(q))

\* process: time_diff > displays_[i]->getUpdateRateInSysticks()
NeedsRedrawAtRate(now, i) ==
    Uint32Sub(now, last_display_update_times_[i]) >= displays_[i + 1]
NeedsRedraw(now, i) ==
    Uint32Sub(now, last_display_update_times_[i]) > displays_[i + 1]

\* redrawDisplay: for(first_to_draw = getNumElements() - 1; first_to_draw >= 0;
\*                    first_to_draw--) if(pages_[first_to_draw]->isOpaque(display)) break;
\* opaque[page] holds the displays for which the page answers that it is opaque.
RECURSIVE ScanForOpaque(_, _, _, _)
ScanForOpaque(st, first_to_draw, display_index, opaque) ==
    IF first_to_draw < 0 THEN first_to_draw
    ELSE IF display_index \in opaque[st.buffer_[first_to_draw]] THEN first_to_draw
    ELSE ScanForOpaque(st, first_to_draw - 1, display_index, opaque)

\* UI::redrawDisplay(display_index, now): the calls on the pages and on the display
redrawDisplay(st, display_index, opaque) ==
    LET scanned == ScanForOpaque(st, getNumElements(st) - 1, display_index, opaque)
        first_to_draw == IF scanned < 0 THEN 0 ELSE scanned
        top == getNumElements(st) - 1
    IN [k \in 1 .. top - first_to_draw + 1 |->
              <<"isOpaque", st.buffer_[top - k + 1],
                display_index \in opaque[st.buffer_[top - k + 1]]>>]
       \o <<<<"clear">>>>
       \o [k \in 1 .. getNumElements(st) - first_to_draw |->
              <<"draw", st.buffer_[first_to_draw + k - 1]>>]
       \o <<<<"swapBuffersAndTransmit">>>>

\* The add* calls of the producers of the dispatcher's queue.
UiCalls ==
    {<<"addButtonPressed", 1, 256>>,
     <<"addButtonPressed", kInvalidButtonId, 2>>, <<"addButtonReleased", 1>>,
     <<"addEncoderTurned", 0, -1, 24>>, <<"addEncoderActivityChanged", 0, TRUE>>,
     <<"addPotMoved", 0, 3>>, <<"addPotActivityChanged", 1, FALSE>>}

\* The button ids bound to the roles by the set...ButtonId calls that follow UI::init.
Bindings ==
    {UnboundIds,
     setButtonId(setButtonId(setButtonId(UnboundIds, "ok", 1), "cancel", 1), "UP", 0),
     setButtonId(setButtonId(UnboundIds, "func", 1), "DOWN", 2)}

\* The pages opened on the dispatcher "A" after UI::init, in this order.
RECURSIVE OpenAll(_, _)
OpenAll(u, opened) ==
    IF opened = <<>> THEN u ELSE OpenAll(openPage(u, "A", Head(opened)), Tail(opened))

\* The programs: the ids bound to the roles and the pages opened.
UiConfigs ==
    {<<ids, opened>> \in Bindings \X {<<>>, <<1>>, <<2, 1>>} :
        /\ (ids = UnboundIds) = (Len(opened) = 1)
        /\ (ids["func"] = 1) = (opened = <<>>)}

\* Largest number of add* calls in one behaviour: one more than the queue holds
\* while the dispatcher holds events back, as many as it holds otherwise.
MaxUiPushes == IF holding THEN kQueueSize + 1 ELSE kQueueSize

\* The ticks the redraw scenario spans.
MaxTime == 60

\* The clock at UI::init: 0, or a system that has been running for a while.
UiStartTimes == {0, 1000}

StartTime == CHOOSE t \in UiStartTimes : t <= sysTime /\ sysTime <= t + MaxTime

\* UI::UI(), UI::init(queue, buffer, num_buttons_) at the time t, then
\* set...ButtonId as ids says, addDisplay for each of rates and openPage for each
\* of opened.
UiInit(t, ids, rates, opened) ==
    /\ InitQueue
    /\ InitIrq
    /\ InitMonitors(t)
    /\ NoButtonMonitor
    /\ NoPotMonitor
    /\ LET u == OpenAll([pages_ |-> [ui \in Dispatchers |-> EmptyStack(kMaxNumPages)],
                         parent_ |-> [page \in Pages |-> nullptr],
                         hooks |-> <<>>], opened)
       IN /\ pages_ = u.pages_
          /\ parent_ = u.parent_
    /\ hooks = <<>>
    /\ lastOp = [op |-> "none", ui |-> "A", page |-> 1]
    /\ snap = <<>>
    /\ is_muted_ = FALSE
    /\ queue_events_ = FALSE
    /\ bttn_ids_ = ids
    /\ button_state_buffer_ = [i \in 0 .. num_buttons_ - 1 |-> 0]
    /\ displays_ = rates
    /\ last_display_update_times_ = [i \in 0 .. kMaxNumDisplays - 1 |-> 0]
    /\ invoked = <<>>
    /\ redraws = {}
    /\ holding = FALSE
    /\ held = <<>>
    /\ redrawCount = [i \in 0 .. Len(rates) - 1 |-> 0]
    /\ everyTick = TRUE
    /\ painted = <<>>
    /\ menu = <<>>
    /\ effects = <<>>
    /\ queried = <<>>
    /\ NoStack

\* A producer calls add*.
UiPush ==
    /\ calls < MaxUiPushes
    /\ calls' = calls + 1
    /\ \E c \in UiCalls :
         /\ events_' = PushEvent(events_, Built(c))
         /\ held' = LET kept == IF holding THEN held ELSE <<>>
                    IN IF (is_muted_ /\ queue_events_) \/ kept # <<>>
                       THEN Append(kept, Built(c)) ELSE kept
    /\ UNCHANGED <<pushed, popped, ref, lastRet, refRet, overflowed, firstPopAt>>
    /\ UNCHANGED <<ivars, sysTime, posted, bvars, pvars, pages_, parent_, hooks, snap>>
    /\ lastOp' = [op |-> "none", ui |-> "A", page |-> 1]
    /\ invoked' = <<>>
    /\ UNCHANGED <<is_muted_, queue_events_, bttn_ids_, button_state_buffer_, displays_,
                   last_display_update_times_, redraws, holding, redrawCount, everyTick,
                   painted, mnvars>>
    /\ queried' = <<>>
    /\ UNCHANGED svars

\* The queue_events arguments of the mute calls: mute(true, true), mute(true) and
\* mute(false), the last two with the default argument.
MuteQueueing(should_be_muted) == IF should_be_muted THEN BOOLEAN ELSE {FALSE}

\* UI::mute(should_be_muted, queue_events)
UiMute ==
    /\ \E should_be_muted \in BOOLEAN : \E queue_events \in MuteQueueing(should_be_muted) :
         /\ is_muted_' = should_be_muted
         /\ queue_events_' = queue_events
         /\ holding' = IF should_be_muted THEN queue_events ELSE holding
         /\ held' = IF holding /\ ~(should_be_muted /\ ~queue_events) THEN held ELSE <<>>
    /\ UNCHANGED <<qvars, ivars, mvars, bvars, pvars, pages_, parent_, hooks, snap>>
    /\ lastOp' = [op |-> "none", ui |-> "A", page |-> 1]
    /\ invoked' = <<>>
    /\ UNCHANGED <<bttn_ids_, button_state_buffer_, displays_, last_display_update_times_,
                   redraws, redrawCount, everyTick, painted, mnvars>>
    /\ queried' = <<>>
    /\ UNCHANGED svars

\* The ticks between two process() calls.  Without a display the time passed to
\* process() has no effect, and the clock is left where it is.
UiTicks == IF displays_ = <<>> THEN {0} ELSE {1, 2}

\* UI::process(current_time_in_systicks), td ticks after the last call
UiProcessWith(td, resp, opaque) ==
    LET now == sysTime + td
        idle == [q |-> events_, u |-> UiState, bsb |-> button_state_buffer_, log |-> <<>>]
        d == IF ~is_muted_
             THEN Dispatch(events_, UiState, "A", button_state_buffer_, resp, <<>>)
             ELSE IF ~queue_events_ THEN [idle EXCEPT !.q = DropEvents(events_)]
             ELSE idle
        red == {i \in 0 .. Len(displays_) - 1 : NeedsRedraw(now, i)}
    IN /\ events_' = d.q
       /\ pages_' = d.u.pages_
       /\ parent_' = d.u.parent_
       /\ hooks' = d.u.hooks
       /\ button_state_buffer_' = d.bsb
       /\ invoked' = d.log
       /\ last_display_update_times_' =
              [i \in DOMAIN last_display_update_times_ |->
                  IF i \in red THEN now ELSE last_display_update_times_[i]]
       /\ redraws' = red
       /\ painted' = [i \in red |-> redrawDisplay(d.u.pages_["A"], i, opaque)]
       /\ redrawCount' = [i \in DOMAIN redrawCount |->
                             IF i \in red THEN redrawCount[i] + 1 ELSE redrawCount[i]]
       /\ everyTick' = (everyTick /\ td <= 1)
       /\ sysTime' = now
       /\ lastOp' = [op |-> "process", ui |-> "A", page |-> 1]
       /\ snap' = <<>>
       /\ holding' = (holding /\ is_muted_)
       /\ UNCHANGED <<pushed, popped, ref, lastRet, refRet, overflowed, firstPopAt>>
       /\ UNCHANGED <<ivars, posted, calls, bvars, pvars, is_muted_, queue_events_,
                      bttn_ids_, displays_, held, mnvars>>
       /\ queried' = <<>>
       /\ UNCHANGED svars

\* The pages on the stack answer as they like; a UiPage that is on no stack keeps the
\* handlers of the base class (UI.h: return true).
UiProcess ==
    \E td \in UiTicks, answers \in [Range(StackOf("A")) \cap Pages -> Responses] :
        /\ sysTime + td <= StartTime + MaxTime
        /\ UiProcessWith(td, [page \in Pages |->
                                 IF page \in DOMAIN answers THEN answers[page]
                                 ELSE [ret |-> TRUE, close |-> FALSE]],
                         [page \in Pages \cup {0} |-> 0 .. Len(displays_) - 1])

InitUi == \E cfg \in UiConfigs : UiInit(0, cfg[1], <<>>, cfg[2])

NextUi ==
    \/ UiPush
    \/ UiMute
    \/ UiProcess

SpecUi == InitUi /\ [][NextUi]_vars

\* Two displays with the update rates 10 and 50, no page, no input.
InitRedraw ==
    \E t \in UiStartTimes : UiInit(t, UnboundIds, addDisplay(addDisplay(<<>>, 10), 50), <<>>)

NextRedraw ==
    \/ UiMute
    \/ UiProcess

SpecRedraw == InitRedraw /\ [][NextRedraw]_vars

\* The ticks the page drawing scenario spans.
MaxDrawTime == 3

\* process() on a dispatcher without input; every page answers isOpaque(display)
\* as it likes.
DrawProcess ==
    \E td \in UiTicks, opaque \in [Range(StackOf("A")) -> SUBSET (0 .. Len(displays_) - 1)] :
        /\ sysTime + td <= MaxDrawTime
        /\ UiProcessWith(td, [page \in Pages |-> [ret |-> TRUE, close |-> FALSE]],
                         [page \in Pages \cup {0} |->
                             IF page \in DOMAIN opaque THEN opaque[page] ELSE {}])

\* Two displays that are redrawn by every process() call and by every other one.
InitDraw == UiInit(0, UnboundIds, addDisplay(addDisplay(<<>>, 0), 1), <<>>)

NextDraw ==
    \/ OpenPage
    \/ ClosePage
    \/ DrawProcess

SpecDraw == InitDraw /\ [][NextDraw]_vars


(***************************************************************************)
(* Claims about the dispatch of input events.                              *)
(***************************************************************************)
\* The calls of one dispatched event walk the array pages_ of the dispatcher from
\* the index getNumElements() - 1 downward, with one callback, and end with the first
\* call that returned true.
WalksDown(r) ==
    LET n == Len(r.stack)
        c == r.calls
    IN /\ Len(c) <= n
       /\ \A j \in 1 .. Len(c) :
            /\ c[j].index = n - j
            /\ c[j].page = r.stack[n - j + 1]
            /\ c[j].call = c[1].call
            /\ j < Len(c) => ~c[j].ret
       /\ Len(c) < n => c # <<>> /\ c[Len(c)].ret

\* C17: for every dispatched event of every type the matching handler is invoked
\* on the pages of the stack, that is on the pages open on the dispatcher, from
\* the top page downward, one page at a time, no page twice; the walk stops after
\* the first page whose handler returned true, a page below is invoked only if
\* every page above it returned false, and when all return false nothing else
\* happens.
C17_TopDownRouting ==
    [][lastOp'.op = "process" =>
         \A k \in 1 .. Len(invoked') :
            LET r == invoked'[k]
                c == r.calls
                matching ==
                    CASE r.e.type \in {"BUTTON_PRESSED", "BUTTON_RELEASED"} ->
                           {"onOkayButton", "onCancelButton", "onFunctionButton",
                            "onArrowButton", "onButton"}
                      [] r.e.type = "ENCODER_TURNED" -> {"onEncoderTurned"}
                      [] r.e.type = "ENCODER_ACTIVITY_CHANGED" -> {"onEncoderActivityChanged"}
                      [] r.e.type = "POT_MOVED" -> {"onPotMoved"}
                      [] r.e.type = "POT_ACTIVITY_CHANGED" -> {"onPotActivityChanged"}
                      [] OTHER -> {}
            IN /\ WalksDown(r)
               /\ \A j \in 1 .. Len(c) : c[j].call[1] \in matching /\ c[j].page \in r.open
               /\ \A i, j \in 1 .. Len(c) : c[i].page = c[j].page => i = j
               /\ Len(c) = Cardinality(r.open) \/ (c # <<>> /\ c[Len(c)].ret)]_vars


\* C18: a button event whose id is bound to a role invokes only that role's page
\* callback, with the click count of the event for a press and 0 for a release; a
\* button event whose id is bound to no role invokes only onButton(id, presses).
\* A role is bound when a set...ButtonId call gave it the id of a button.
C18_ButtonRoleRouting ==
    [][lastOp'.op = "process" =>
         \A k \in 1 .. Len(invoked') :
            LET r == invoked'[k]
                presses == IF r.e.type = "BUTTON_PRESSED" THEN r.e.payload ELSE 0
                bound == {role \in Roles : /\ bttn_ids_[role] # kInvalidButtonId
                                           /\ bttn_ids_[role] = r.e.id}
                RoleCallback(role) ==
                    CASE role = "ok" -> <<"onOkayButton", presses>>
                      [] role = "cancel" -> <<"onCancelButton", presses>>
                      [] role = "func" -> <<"onFunctionButton", presses>>
                      [] OTHER -> <<"onArrowButton", role, presses>>
            IN r.e.type \in {"BUTTON_PRESSED", "BUTTON_RELEASED"} =>
                 \A j \in 1 .. Len(r.calls) :
                    IF bound # {}
                    THEN \E role \in bound : r.calls[j].call = RoleCallback(role)
                    ELSE r.calls[j].call = <<"onButton", r.e.id, presses>>]_vars


\* The events that a process() step handed to processEvent, in this order.
Dispatched(log) == [k \in 1 .. Len(log) |-> log[k].e]

\* The last n elements of s.
Last(s, n) == SubSeq(s, Len(s) - n + 1, Len(s))

\* What C19 says of a process() call on a muted dispatcher: no handler is invoked;
\* with queueing the queue is not touched, without it the queue is emptied.
MutedProcess ==
    lastOp'.op = "process" /\ is_muted_ =>
        /\ invoked' = <<>>
        /\ queue_events_ => events_' = events_
        /\ ~queue_events_ => isQueueEmpty(events_')

C20_RedrawWhenIntervalExceeded ==
    /\ [][lastOp'.op = "process" =>
            \A i \in 0 .. Len(displays_) - 1 :
               LET elapsed == Uint32Sub(sysTime', last_display_update_times_[i])
               IN /\ i \in redraws' <=> elapsed > displays_[i + 1]
                  /\ last_display_update_times_'[i] =
                        IF i \in redraws' THEN sysTime' ELSE last_display_update_times_[i]
                  /\ redrawCount'[i] = redrawCount[i] + (IF i \in redraws' THEN 1 ELSE 0)]_vars
    /\ [](displays_ = <<10, 50>> /\ everyTick /\ sysTime = StartTime + 60 =>
            redrawCount[0] \in 5 .. 6 /\ redrawCount[1] \in 1 .. 2)

\* The two displays were polled every tick for 60 ticks, part of the time on a muted
\* dispatcher: the first was redrawn six times and the second twice.
C20_Witness ==
    /\ displays_ = <<10, 50>>
    /\ lastOp.op = "process"
    /\ is_muted_
    /\ everyTick
    /\ sysTime = StartTime + 60
    /\ redrawCount[0] = 6
    /\ redrawCount[1] = 2


\* The calls of a redraw but the isOpaque queries.
Drawing(ops) == SelectSeq(ops, LAMBDA c : c[1] # "isOpaque")

\* The pages that a redraw has found opaque.
FoundOpaque(ops) == {c[2] : c \in {ops[k] : k \in 1 .. Len(ops)} \cap
                                  {<<"isOpaque", p, TRUE>> : p \in Pages}}

\* The index of the topmost page of the stack s that is in the set opq, 0 without one.
RECURSIVE TopmostOf(_, _)
TopmostOf(s, opq) ==
    IF s = <<>> THEN 0
    ELSE IF s[Len(s)] \in opq THEN Len(s)
    ELSE TopmostOf(SubSeq(s, 1, Len(s) - 1), opq)

\* C21: each redraw of a display clears it once, then draws every page of the
\* stack, the pages open on the dispatcher, from the topmost page that reports
\* itself opaque for that display (from the bottom page when none does) up to the
\* top page in ascending stack order, each page once, and then presents once; no
\* page below the topmost opaque page is drawn, and with an empty stack the display
\* is still cleared and presented.
C21_RedrawOrder ==
    [][lastOp'.op = "process" =>
         \A i \in DOMAIN painted' :
            LET d == Drawing(painted'[i])
                s == Elements(pages_'["A"])
                t == TopmostOf(s, FoundOpaque(painted'[i]))
                first == IF t = 0 THEN 1 ELSE t
            IN /\ Len(d) >= 2
               /\ d[1] = <<"clear">>
               /\ d[Len(d)] = <<"swapBuffersAndTransmit">>
               /\ SubSeq(d, 2, Len(d) - 1)
                     = [k \in 1 .. Len(s) - first + 1 |-> <<"draw", s[first + k - 1]>>]
               /\ \A k \in 2 .. Len(d) - 1 : parent_'[d[k][2]] = "A"
               /\ \A j, k \in 2 .. Len(d) - 1 : d[j] = d[k] => j = k]_vars


(***************************************************************************)
(* AbstractMenu: a page that holds a list of items.  The menu is one page  *)
(* of the program and its open-submenu items link to another one.  The     *)
(* items refer to objects outside of the menu: the flag of a checkbox, and *)
(* the value, callback or custom item object, of which the model records   *)
(* the calls that the last operation made on them.  The dispatcher is the  *)
(* UI of this model; the ids of the menu encoder, the value encoder and    *)
(* the value pot that AbstractMenu reads with GetSpecialControlIds() are   *)
(* kept in bttn_ids_.                                                      *)
(***************************************************************************)
ToUint16(x) == x % 65536

\* The page that is the menu and the page its open-submenu items link to.
MenuPages == [menu |-> 1, pageToOpen |-> 2]

\* The menu, the objects of its items and the dispatchers an operation works on.
MenuState == [menu |-> menu, flags |-> effects.flags, calls |-> <<>>, u |-> UiState]

\* AbstractMenu::CanItemBeModified(uint16_t itemIdx)
CanNoItemBeModified(m, itemIdx) == FALSE
CanItemOfAnyTypeBeModified(m, itemIdx) == ToUint16(itemIdx) < m.numItems_
CanItemBeModified(m, itemIdx) ==
    IF ToUint16(itemIdx) >= m.numItems_ THEN FALSE
    ELSE LET item == m.items_[ToUint16(itemIdx) + 1]
         IN CASE item.type = "valueItem" -> TRUE
              [] item.type = "customItem" -> item.canBeModified
              [] OTHER -> FALSE

ModifyNoItemValue(st, itemIdx, increments, stepsPerRevolution, isFunctionButtonPressed) ==
    st

\* AbstractMenu::ModifyItemValue(itemIdx, increments, stepsPerRevolution,
\*                               isFunctionButtonPressed)
ModifyItemValue(st, itemIdx, increments, stepsPerRevolution, isFunctionButtonPressed) ==
    IF ToUint16(itemIdx) >= st.menu.numItems_ THEN st
    ELSE LET i == ToUint16(itemIdx)
             type == st.menu.items_[i + 1].type
         IN CASE type = "checkboxItem" -> [st EXCEPT !.flags[i] = (increments > 0)]
              [] type = "valueItem" ->
                   [st EXCEPT !.calls = Append(@, <<"Step", i, increments,
                                                    isFunctionButtonPressed>>)]
              [] type = "customItem" ->
                   [st EXCEPT !.calls = Append(@, <<"ModifyValue", i, increments,
                                                    stepsPerRevolution,
                                                    isFunctionButtonPressed>>)]
              [] OTHER -> st

\* AbstractMenu::ModifyItemValue(itemIdx, valueSliderPosition0To1,
\*                               isFunctionButtonPressed), the position in hundredths
ModifyItemValueFromSlider(st, itemIdx, valueSliderPosition0To1, isFunctionButtonPressed) ==
    IF ToUint16(itemIdx) >= st.menu.numItems_ THEN st
    ELSE LET i == ToUint16(itemIdx)
             type == st.menu.items_[i + 1].type
         IN CASE type = "checkboxItem" ->
                   [st EXCEPT !.flags[i] = (valueSliderPosition0To1 > 50)]
              [] type = "valueItem" ->
                   [st EXCEPT !.calls = Append(@, <<"SetFrom0to1", i,
                                                    valueSliderPosition0To1>>)]
              [] type = "customItem" ->
                   [st EXCEPT !.calls = Append(@, <<"ModifyValue", i,
                                                    valueSliderPosition0To1,
                                                    isFunctionButtonPressed>>)]
              [] OTHER -> st

\* AbstractMenu::OnShow()
OnShowKeepsMode(m) == [m EXCEPT !.isFuncButtonDown_ = FALSE]
OnShow(m) == [m EXCEPT !.isEntered_ = FALSE, !.isFuncButtonDown_ = FALSE]

\* The show hook of the menu, when the operation that led to st has called it.
Shown(st) ==
    IF <<"onShow", MenuPages.menu>> \in Range(st.u.hooks)
    THEN [st EXCEPT !.menu = OnShow(@)] ELSE st

\* AbstractMenu::OnItemEnter(uint16_t itemIdx)
OnItemEnter(st, itemIdx) ==
    IF ToUint16(itemIdx) >= st.menu.numItems_ THEN st
    ELSE LET i == ToUint16(itemIdx)
             type == st.menu.items_[i + 1].type
             ui == st.u.parent_[MenuPages.menu]
         IN CASE type = "callbackFunctionItem" ->
                   [st EXCEPT !.calls = Append(@, <<"callbackFunction", i, "context">>)]
              [] type = "checkboxItem" -> [st EXCEPT !.flags[i] = ~@]
              [] type = "closeMenuItem" -> [st EXCEPT !.u = close(@, MenuPages.menu)]
              [] type = "openSubMenuItem" ->
                   IF ui # nullptr
                   THEN [st EXCEPT !.u = openPage(@, ui, MenuPages.pageToOpen)]
                   ELSE st
              [] type = "customItem" -> [st EXCEPT !.calls = Append(@, <<"OnEnter", i>>)]
              [] OTHER -> st


\* UI::GetSpecialControlIds(): the designated menu encoder, value encoder and
\* value pot, three different controls.
GetSpecialControlIds == [menuEncoderId |-> 0, valueEncoderId |-> 1, valuePotId |-> 0]

\* The item lists a menu is initialised with: ItemConfig by its type and, for a
\* custom item, the answer of its CanBeModified().
Item(type) == [type |-> type, canBeModified |-> FALSE]
ModifiableCustomItem == [type |-> "customItem", canBeModified |-> TRUE]
ItemLists ==
    { <<Item("valueItem"), Item("checkboxItem"), Item("callbackFunctionItem")>>,
      <<Item("openSubMenuItem"), Item("closeMenuItem"), ModifiableCustomItem,
        Item("customItem")>>,
      <<Item("valueItem")>>,
      <<>> }
Orientations == {"leftRightSelectUpDownModify", "upDownSelectLeftRightModify"}
ArrowButtonTypes == {"left", "right", "up", "down"}
PressCounts == 0 .. 2
EncoderIds == 0 .. 2
Turns == {-32768, -1, 2, 32767}
StepsPerRevolution == {24}
PotIds == 0 .. 1
SliderPositions == {30, 70}
MaxNumItems == 4

\* AbstractMenu(), the member initialisers; the dispatchers and pages constructed,
\* the flags of the checkbox items cleared.
InitMenu ==
    /\ InitQueue
    /\ InitIrq
    /\ NoMonitors
    /\ is_muted_ = FALSE
    /\ queue_events_ = FALSE
    /\ bttn_ids_ = <<>>
    /\ button_state_buffer_ = <<>>
    /\ displays_ = <<>>
    /\ last_display_update_times_ = <<>>
    /\ invoked = <<>>
    /\ redraws = <<>>
    /\ holding = FALSE
    /\ held = <<>>
    /\ redrawCount = <<>>
    /\ everyTick = TRUE
    /\ painted = <<>>
    /\ pages_ = [ui \in Dispatchers |-> EmptyStack(kMaxNumPages)]
    /\ parent_ = [page \in Pages |-> nullptr]
    /\ hooks = <<>>
    /\ lastOp = [op |-> "AbstractMenu", ui |-> "A", page |-> MenuPages.menu]
    /\ snap = <<>>
    /\ menu = [orientation_ |-> "upDownSelectLeftRightModify",
               items_ |-> <<>>,
               numItems_ |-> 0,
               selectedItemIdx_ |-> -1,
               allowEntering_ |-> TRUE,
               isEntered_ |-> FALSE,
               isFuncButtonDown_ |-> FALSE]
    /\ effects = [flags |-> [i \in 0 .. MaxNumItems - 1 |-> FALSE],
                  calls |-> <<>>,
                  call |-> <<"AbstractMenu">>,
                  ret |-> TRUE]
    /\ queried = <<>>
    /\ NoStack

\* The bookkeeping of the operation call on the menu that has led from MenuState
\* to st and has returned ret.
MenuOperated(call, st, ret) ==
    /\ menu' = st.menu
    /\ effects' = [flags |-> st.flags, calls |-> st.calls, call |-> call, ret |-> ret]
    /\ pages_' = st.u.pages_
    /\ parent_' = st.u.parent_
    /\ hooks' = st.u.hooks
    /\ lastOp' = [op |-> call[1], ui |-> "A", page |-> MenuPages.menu]
    /\ snap' = <<>>
    /\ invoked' = <<>>
    /\ painted' = <<>>
    /\ queried' = <<>>
    /\ UNCHANGED svars
    /\ UNCHANGED <<qvars, ivars, mvars, bvars, pvars>>
    /\ UNCHANGED <<is_muted_, queue_events_, bttn_ids_, button_state_buffer_, displays_,
                   last_display_update_times_, redraws, holding, held, redrawCount,
                   everyTick>>

\* AbstractMenu::Init(orientation, items, numItems, allowEntering)
MenuInitKeepsSelection(m, orientation, items, allowEntering) ==
    [m EXCEPT !.orientation_ = orientation,
              !.items_ = items,
              !.numItems_ = Len(items),
              !.allowEntering_ = allowEntering,
              !.isEntered_ = FALSE,
              !.isFuncButtonDown_ = FALSE]
MenuInit(m, orientation, items, allowEntering) ==
    [m EXCEPT !.orientation_ = orientation,
              !.items_ = items,
              !.numItems_ = Len(items),
              !.allowEntering_ = allowEntering,
              !.selectedItemIdx_ = 0,
              !.isEntered_ = FALSE,
              !.isFuncButtonDown_ = FALSE]

Init ==
    \E orientation \in Orientations, items \in ItemLists, allowEntering \in BOOLEAN :
        MenuOperated(<<"Init", orientation, items, allowEntering>>,
                     [MenuState EXCEPT !.menu = MenuInit(@, orientation, items,
                                                         allowEntering)],
                     TRUE)

\* AbstractMenu::SelectItem(uint16_t itemIdx)
SelectItem ==
    \E itemIdx \in 0 .. MaxNumItems :
        MenuOperated(<<"SelectItem", itemIdx>>,
                     IF itemIdx >= menu.numItems_ THEN MenuState
                     ELSE [MenuState EXCEPT !.menu.selectedItemIdx_ = itemIdx,
                                            !.menu.isEntered_ = FALSE],
                     TRUE)

\* AbstractMenu::OnOkayButton(uint8_t numberOfPresses)
OnOkayButton ==
    \E numberOfPresses \in PressCounts :
        MenuOperated(<<"OnOkayButton", numberOfPresses>>,
                     IF numberOfPresses < 1 THEN MenuState
                     ELSE IF menu.allowEntering_
                             /\ CanItemBeModified(menu, menu.selectedItemIdx_)
                     THEN [MenuState EXCEPT !.menu.isEntered_ = ~@]
                     ELSE OnItemEnter([MenuState EXCEPT !.menu.isEntered_ = FALSE],
                                      menu.selectedItemIdx_),
                     TRUE)

\* AbstractMenu::OnCancelButton(uint8_t numberOfPresses)
OnCancelButton ==
    \E numberOfPresses \in PressCounts :
        MenuOperated(<<"OnCancelButton", numberOfPresses>>,
                     IF numberOfPresses < 1 THEN MenuState
                     ELSE [MenuState EXCEPT !.u = close(@, MenuPages.menu)],
                     TRUE)

\* OnArrowButton: the arrows that modify the value whether entered or not, with the
\* increment they stand for, and the arrows that select, or modify while entered.
ModifyArrows(orientation) ==
    IF orientation = "leftRightSelectUpDownModify"
    THEN [down |-> -1, up |-> 1] ELSE [left |-> -1, right |-> 1]
SelectArrows(orientation) ==
    IF orientation = "leftRightSelectUpDownModify"
    THEN [left |-> -1, right |-> 1] ELSE [up |-> -1, down |-> 1]
EnteredArrowsReversed(orientation) ==
    IF orientation = "leftRightSelectUpDownModify"
    THEN [left |-> 1, right |-> -1] ELSE [down |-> 1, up |-> -1]
EnteredArrows(orientation) ==
    IF orientation = "leftRightSelectUpDownModify"
    THEN [left |-> -1, right |-> 1] ELSE [down |-> -1, up |-> 1]

\* OnArrowButton: the move of the selection while the menu is not entered
MoveSelectionNoClamp(m, by) == [m EXCEPT !.selectedItemIdx_ = ToInt16(@ + by)]
MoveSelection(m, by) ==
    IF by < 0 /\ m.selectedItemIdx_ > 0
    THEN [m EXCEPT !.selectedItemIdx_ = ToInt16(@ - 1)]
    ELSE IF by > 0 /\ m.selectedItemIdx_ < m.numItems_ - 1
    THEN [m EXCEPT !.selectedItemIdx_ = ToInt16(@ + 1)]
    ELSE m

\* AbstractMenu::OnArrowButton(arrowType, uint8_t numberOfPresses)
OnArrowButton ==
    \E arrowType \in ArrowButtonTypes, numberOfPresses \in PressCounts :
        MenuOperated(<<"OnArrowButton", arrowType, numberOfPresses>>,
                     IF numberOfPresses < 1 THEN MenuState
                     ELSE IF arrowType \in DOMAIN ModifyArrows(menu.orientation_)
                     THEN ModifyItemValue(MenuState, menu.selectedItemIdx_,
                                          ModifyArrows(menu.orientation_)[arrowType], 0,
                                          menu.isFuncButtonDown_)
                     ELSE IF menu.isEntered_
                     THEN ModifyItemValue(MenuState, menu.selectedItemIdx_,
                                          EnteredArrows(menu.orientation_)[arrowType], 0,
                                          menu.isFuncButtonDown_)
                     ELSE [MenuState EXCEPT !.menu =
                              MoveSelection(@, SelectArrows(menu.orientation_)[arrowType])],
                     TRUE)

\* AbstractMenu::OnFunctionButton(uint8_t numberOfPresses)
OnFunctionButton ==
    \E numberOfPresses \in PressCounts :
        MenuOperated(<<"OnFunctionButton", numberOfPresses>>,
                     [MenuState EXCEPT !.menu.isFuncButtonDown_ = (numberOfPresses > 0)],
                     TRUE)

\* OnEncoderTurned: int16_t result = selectedItemIdx_ + turns, and the selection it gives
ScrollSelectionExact(m, turns) ==
    LET result == m.selectedItemIdx_ + turns
    IN [m EXCEPT !.selectedItemIdx_ =
           IF result < 0 THEN 0
           ELSE IF result >= m.numItems_ THEN ToInt16(m.numItems_ - 1) ELSE result]
ScrollSelection(m, turns) ==
    LET result == ToInt16(m.selectedItemIdx_ + turns)
    IN [m EXCEPT !.selectedItemIdx_ =
           IF result < 0 THEN 0
           ELSE IF result >= m.numItems_ THEN ToInt16(m.numItems_ - 1) ELSE result]

\* AbstractMenu::OnEncoderTurned(encoderID, turns, stepsPerRevolution)
OnEncoderTurned ==
    \E encoderID \in EncoderIds, turns \in Turns, stepsPerRevolution \in StepsPerRevolution :
        MenuOperated(<<"OnEncoderTurned", encoderID, turns, stepsPerRevolution>>,
                     IF parent_[MenuPages.menu] = nullptr THEN MenuState
                     ELSE LET scrolled ==
                                  IF encoderID # GetSpecialControlIds.menuEncoderId
                                  THEN MenuState
                                  ELSE IF menu.isEntered_
                                  THEN ModifyItemValue(MenuState, menu.selectedItemIdx_,
                                                       turns, stepsPerRevolution,
                                                       menu.isFuncButtonDown_)
                                  ELSE [MenuState EXCEPT !.menu = ScrollSelection(@, turns)]
                          IN IF encoderID = GetSpecialControlIds.valueEncoderId
                             THEN ModifyItemValue(scrolled, scrolled.menu.selectedItemIdx_,
                                                  turns, stepsPerRevolution,
                                                  scrolled.menu.isFuncButtonDown_)
                             ELSE scrolled,
                     TRUE)

\* AbstractMenu::OnPotMoved(potID, newPosition)
OnPotMoved ==
    \E potID \in PotIds, newPosition \in SliderPositions :
        MenuOperated(<<"OnPotMoved", potID, newPosition>>,
                     IF /\ parent_[MenuPages.menu] # nullptr
                        /\ potID = GetSpecialControlIds.valuePotId
                        /\ menu.isEntered_
                     THEN ModifyItemValueFromSlider(MenuState, menu.selectedItemIdx_,
                                                    newPosition, menu.isFuncButtonDown_)
                     ELSE MenuState,
                     TRUE)

\* UI::openPage(menu) on the dispatcher the program shows its menu on, and
\* UI::closePage(page) of the menu and of the page its items link to
MenuDispatcher == "A"

OpenMenuPage ==
    MenuOperated(<<"openPage", MenuDispatcher, MenuPages.menu>>,
                 Shown([MenuState EXCEPT !.u = openPage(@, MenuDispatcher, MenuPages.menu)]),
                 TRUE)

CloseMenuPage ==
    \E page \in Range(<<MenuPages.menu, MenuPages.pageToOpen>>) :
        MenuOperated(<<"closePage", MenuDispatcher, page>>,
                     [MenuState EXCEPT !.u = closePage(@, MenuDispatcher, page)], TRUE)

NextMenu ==
    \/ Init
    \/ SelectItem
    \/ OnOkayButton
    \/ OnCancelButton
    \/ OnArrowButton
    \/ OnFunctionButton
    \/ OnEncoderTurned
    \/ OnPotMoved
    \/ OpenMenuPage
    \/ CloseMenuPage

SpecMenu == InitMenu /\ [][NextMenu]_vars


(***************************************************************************)
(* Claims about the menu.                                                  *)
(***************************************************************************)
\* The call that the last operation on the menu was, the one a step makes.
MenuCall(name) == effects.call[1] = name
Calls(name) == effects'.call[1] = name

\* The direction an arrow points to in the list of items, the arrows of the axis
\* that an orientation selects with, and the arrows of the other axis.
ArrowDirection == [left |-> -1, right |-> 1, up |-> -1, down |-> 1]
SelectionAxis(orientation) ==
    IF orientation = "leftRightSelectUpDownModify" THEN {"left", "right"} ELSE {"up", "down"}
ModifyAxis(orientation) == ArrowButtonTypes \ SelectionAxis(orientation)
Clamped(x, lo, hi) == IF x < lo THEN lo ELSE IF x > hi THEN hi ELSE x

\* C22: after Init with N >= 1 items the selected index is within [0, N-1] and every
\* arrow press (any arrow, any count >= 1, either orientation, browsing or entered)
\* leaves it there; a press on the selection axis while browsing moves the index by
\* exactly one in the direction of the arrow, or leaves it where it is at the first
\* or last item.
C22_ArrowSelectionClamped ==
    /\ [](menu.numItems_ >= 1 => menu.selectedItemIdx_ \in 0 .. menu.numItems_ - 1)
    /\ [][Calls("OnArrowButton") /\ effects'.call[3] >= 1 /\ menu.numItems_ >= 1 =>
            /\ menu'.selectedItemIdx_ \in 0 .. menu.numItems_ - 1
            /\ effects'.call[2] \in SelectionAxis(menu.orientation_) /\ ~menu.isEntered_ =>
                  menu'.selectedItemIdx_ =
                      Clamped(menu.selectedItemIdx_ + ArrowDirection[effects'.call[2]],
                              0, menu.numItems_ - 1)]_vars

\* A double press of the down arrow has left a browsing menu at the last of four items.
C22_Witness ==
    /\ MenuCall("OnArrowButton")
    /\ effects.call[3] = 2
    /\ effects.call[2] = "down"
    /\ menu.orientation_ = "upDownSelectLeftRightModify"
    /\ ~menu.isEntered_
    /\ menu.numItems_ = 4
    /\ menu.selectedItemIdx_ = 3


\* The increment that an arrow of the modify axis stands for.
ValueDirection == [left |-> -1, right |-> 1, down |-> -1, up |-> 1]

\* The step has stepped the value of the selected item by increments and nothing
\* else: a value item got Step, a custom item ModifyValue, the flag of a checkbox
\* item is set when increments is positive and cleared otherwise, and an item
\* without a value is left alone.
ValueStepped(increments, stepsPerRevolution) ==
    LET i == menu.selectedItemIdx_
        type == menu.items_[i + 1].type
    IN /\ effects'.calls =
              CASE type = "valueItem" ->
                     << <<"Step", i, increments, menu.isFuncButtonDown_>> >>
                [] type = "customItem" ->
                     << <<"ModifyValue", i, increments, stepsPerRevolution,
                          menu.isFuncButtonDown_>> >>
                [] OTHER -> <<>>
       /\ effects'.flags =
              IF type = "checkboxItem"
              THEN [effects.flags EXCEPT ![i] = (increments > 0)] ELSE effects.flags
       /\ UNCHANGED <<pages_, parent_>>

\* C23: an arrow press on the axis that the orientation assigns to direct modify
\* (up/down for left-right select, left/right for up-down select) changes neither
\* the selected index nor the entered flag, browsing or entered, and steps the value
\* of the selected item by +1 (right, up) or -1 (left, down).
C23_ModifyAxisSteps ==
    [][/\ Calls("OnArrowButton")
       /\ effects'.call[3] >= 1
       /\ effects'.call[2] \in ModifyAxis(menu.orientation_)
       /\ menu.numItems_ >= 1
       => /\ menu' = menu
          /\ ValueStepped(ValueDirection[effects'.call[2]], 0)]_vars

\* A press of the left arrow has stepped the custom item down that is selected, the
\* third, in a browsing menu that selects with up and down.
C23_Witness ==
    /\ MenuCall("OnArrowButton")
    /\ effects.call[2] = "left"
    /\ effects.call[3] = 1
    /\ menu.orientation_ = "upDownSelectLeftRightModify"
    /\ ~menu.isEntered_
    /\ menu.selectedItemIdx_ = 2
    /\ effects.calls = << <<"ModifyValue", 2, -1, 0, FALSE>> >>


\* The calls of the handlers of input events.
EventHandlers ==
    {"OnOkayButton", "OnCancelButton", "OnArrowButton", "OnFunctionButton",
     "OnEncoderTurned", "OnPotMoved"}

\* C24: while the menu is entered, no arrow press and no turn of the menu encoder
\* (no input event at all) changes the selected index; a press of an arrow of the
\* selection axis steps the value of the selected item by +1 (right, up) or -1
\* (left, down) and leaves the menu entered.
C24_EnteredKeepsSelection ==
    [][menu.isEntered_ /\ effects'.call[1] \in EventHandlers =>
          /\ menu'.selectedItemIdx_ = menu.selectedItemIdx_
          /\ /\ Calls("OnArrowButton")
             /\ effects'.call[3] >= 1
             /\ effects'.call[2] \in SelectionAxis(menu.orientation_)
             => /\ menu' = menu
                /\ ValueStepped(ValueDirection[effects'.call[2]], 0)]_vars

\* A press of the down arrow, the selection axis, has stepped the value of the first
\* item down in an entered menu.
C24_Witness ==
    /\ MenuCall("OnArrowButton")
    /\ effects.call[2] = "down"
    /\ effects.call[3] = 1
    /\ menu.orientation_ = "upDownSelectLeftRightModify"
    /\ menu.isEntered_
    /\ menu.numItems_ = 3
    /\ effects.calls = << <<"Step", 0, -1, FALSE>> >>


\* The selected item supports direct modification: a value item, or a custom item
\* that reports to be modifiable.
SelectedIsModifiable ==
    /\ menu.selectedItemIdx_ \in 0 .. menu.numItems_ - 1
    /\ LET item == menu.items_[menu.selectedItemIdx_ + 1]
       IN item.type = "valueItem" \/ (item.type = "customItem" /\ item.canBeModified)

\* The step has performed no enter action and has modified no value.
NothingEntered ==
    /\ effects'.calls = <<>>
    /\ effects'.flags = effects.flags
    /\ hooks' = <<>>
    /\ UNCHANGED <<pages_, parent_>>

\* The step has toggled the menu between browsing and entered and done nothing else.
Toggled ==
    /\ menu' = [menu EXCEPT !.isEntered_ = ~@]
    /\ NothingEntered

OpenOn(ui) == {page \in Pages : parent_[page] = ui}

\* The step has performed the enter action of the item i of the given type, once,
\* and nothing else: the callback is called with its context, the flag of the
\* checkbox is negated, the linked page is opened on top of the stack of the menu's
\* dispatcher (where it is closed and the dispatcher has room for it), the menu is
\* closed, the custom item gets OnEnter.
EnterActionDone(i, type) ==
    LET ui == parent_[MenuPages.menu]
    IN /\ effects'.calls =
              CASE type = "callbackFunctionItem" -> << <<"callbackFunction", i, "context">> >>
                [] type = "customItem" -> << <<"OnEnter", i>> >>
                [] OTHER -> <<>>
       /\ effects'.flags =
              IF type = "checkboxItem" THEN [effects.flags EXCEPT ![i] = ~@]
              ELSE effects.flags
       /\ CASE type = "openSubMenuItem" /\ ui # nullptr
                    /\ parent_[MenuPages.pageToOpen] = nullptr
                    /\ Cardinality(OpenOn(ui)) < kMaxNumPages ->
                 /\ Elements(pages_'[ui]) = Append(StackOf(ui), MenuPages.pageToOpen)
                 /\ parent_' = [parent_ EXCEPT ![MenuPages.pageToOpen] = ui]
                 /\ hooks' = << <<"onShow", MenuPages.pageToOpen>> >>
            [] type = "closeMenuItem" /\ ui # nullptr ->
                 /\ MenuPages.menu \notin Range(Elements(pages_'[ui]))
                 /\ parent_' = [parent_ EXCEPT ![MenuPages.menu] = nullptr]
                 /\ hooks' = << <<"onHide", MenuPages.menu>> >>
            [] type \notin {"openSubMenuItem", "closeMenuItem"} ->
                 hooks' = <<>> /\ UNCHANGED <<pages_, parent_>>
            [] OTHER -> TRUE

\* C26: an Okay press while the selected item is not modifiable performs the enter
\* action of that item exactly once and leaves the menu browsing: the callback of a
\* callback item is called once with its context, the flag of a checkbox item is
\* negated, the page of an open-submenu item is opened on the menu's dispatcher, a
\* close item closes the menu, and a custom item gets OnEnter.
C26_OkayEntersItem ==
    [][/\ Calls("OnOkayButton")
       /\ effects'.call[2] >= 1
       /\ menu.selectedItemIdx_ \in 0 .. menu.numItems_ - 1
       /\ ~SelectedIsModifiable
       => /\ menu' = [menu EXCEPT !.isEntered_ = FALSE]
          /\ EnterActionDone(menu.selectedItemIdx_,
                             menu.items_[menu.selectedItemIdx_ + 1].type)]_vars


\* C27: while the menu is attached to a dispatcher and has N >= 1 items, a turn of the
\* menu encoder by any 16-bit signed delta d steps the value of the selected item by
\* d and leaves the selection alone while the menu is entered, and sets the
\* selection to min(max(selection + d, 0), N-1) and changes no value while it is
\* browsing.
C27_MenuEncoderTurn ==
    [][/\ Calls("OnEncoderTurned")
       /\ effects'.call[2] = GetSpecialControlIds.menuEncoderId
       /\ parent_[MenuPages.menu] # nullptr
       /\ menu.numItems_ >= 1
       => IF menu.isEntered_
          THEN menu' = menu /\ ValueStepped(effects'.call[3], effects'.call[4])
          ELSE /\ menu' = [menu EXCEPT !.selectedItemIdx_ =
                              Clamped(@ + effects'.call[3], 0, menu.numItems_ - 1)]
               /\ NothingEntered]_vars


\* C28: a Cancel press on a menu that is open on a dispatcher closes the page:
\* afterwards the menu is not on the page stack of the dispatcher, its parent is
\* null and its hide hook ran once, the menu itself and the other pages as they
\* were; a Cancel release changes nothing; both report the event as consumed.
C28_CancelCloses ==
    [][Calls("OnCancelButton") =>
          /\ effects'.ret = TRUE
          /\ menu' = menu
          /\ effects'.calls = <<>>
          /\ effects'.flags = effects.flags
          /\ IF effects'.call[2] >= 1 /\ parent_[MenuPages.menu] # nullptr
             THEN LET ui == parent_[MenuPages.menu]
                  IN /\ MenuPages.menu \notin Range(Elements(pages_'[ui]))
                     /\ Elements(pages_'[ui]) = Without(StackOf(ui), MenuPages.menu)
                     /\ parent_' = [parent_ EXCEPT ![MenuPages.menu] = nullptr]
                     /\ hooks' = << <<"onHide", MenuPages.menu>> >>
             ELSE hooks' = <<>> /\ UNCHANGED <<pages_, parent_>>]_vars


\* C29: a freshly constructed menu has 0 items and the selected index -1; every
\* Init(orientation, items, N, allowEntering), also of a menu that was navigated or
\* entered before, leaves a menu with N items, the selected index 0, browsing, the
\* function button not held, and the given orientation and allowEntering.
C29_InitState ==
    /\ [](MenuCall("AbstractMenu") => menu.numItems_ = 0 /\ menu.selectedItemIdx_ = -1)
    /\ [][Calls("Init") =>
             menu' = [orientation_ |-> effects'.call[2],
                      items_ |-> effects'.call[3],
                      numItems_ |-> Len(effects'.call[3]),
                      selectedItemIdx_ |-> 0,
                      allowEntering_ |-> effects'.call[4],
                      isEntered_ |-> FALSE,
                      isFuncButtonDown_ |-> FALSE]]_vars

\* A menu that is open on a dispatcher, and in which the checkbox of the second item
\* had been selected and set before, has been initialised again.
C29_Witness ==
    /\ MenuCall("Init")
    /\ menu.numItems_ = 3
    /\ menu.selectedItemIdx_ = 0
    /\ ~menu.isEntered_
    /\ effects.flags[1]
    /\ parent_[MenuPages.menu] # nullptr


\* C30: whenever the menu page is shown, that is its show hook runs because openPage
\* has succeeded, it is browsing and its function-button flag is cleared, whatever
\* they were before; what else the menu holds is as it was.
C30_ShownIsBrowsing ==
    [][(\E i \in 1 .. Len(hooks') : hooks'[i] = <<"onShow", MenuPages.menu>>) =>
          menu' = [menu EXCEPT !.isEntered_ = FALSE, !.isFuncButtonDown_ = FALSE]]_vars

\* The menu has been opened a second time, its third item selected.
C30_Witness ==
    /\ MenuCall("openPage")
    /\ hooks = << <<"onShow", MenuPages.menu>> >>
    /\ StackOf(MenuDispatcher) = <<MenuPages.menu, MenuPages.menu>>
    /\ menu.selectedItemIdx_ = 2
    /\ ~menu.isEntered_
    /\ ~menu.isFuncButtonDown_


(***************************************************************************)
(* The queries of the button states of the dispatcher.  The buffer that    *)
(* UI::init is given holds num_buttons_ bytes; what a read outside of it   *)
(* finds is not determined by the program.                                 *)
(***************************************************************************)
\* button_state_buffer_[index] as a bool
ReadButtonState(index) ==
    IF index \in DOMAIN button_state_buffer_
    THEN {button_state_buffer_[index] # 0} ELSE BOOLEAN

\* The bookkeeping of a query that has read button_state_buffer_[index].
Queried(call, index) ==
    /\ \E answer \in ReadButtonState(index) :
          queried' = [call |-> call, index |-> index, ret |-> answer]
    /\ UNCHANGED svars
    /\ lastOp' = [op |-> "none", ui |-> "A", page |-> 1]
    /\ invoked' = <<>>
    /\ UNCHANGED <<qvars, ivars, mvars, bvars, pvars, pages_, parent_, hooks, snap>>
    /\ UNCHANGED <<is_muted_, queue_events_, bttn_ids_, button_state_buffer_, displays_,
                   last_display_update_times_, redraws, holding, held, redrawCount,
                   everyTick, painted, mnvars>>

QueryIds == {0, 1, 2, kInvalidButtonId}

\* UI::isButtonDown(uint16_t button_id)
isButtonDown == \E button_id \in QueryIds : Queried(<<"isButtonDown", button_id>>, button_id)

\* UI::isFuncButtonDown()
isFuncButtonDown == Queried(<<"isFuncButtonDown">>, bttn_ids_["func"])

NextQuery ==
    \/ UiPush
    \/ UiProcess
    \/ isButtonDown
    \/ isFuncButtonDown

SpecQuery == InitUi /\ [][NextQuery]_vars

\* C31: isButtonDown(id) for an id >= the number of buttons, and isFuncButtonDown()
\* while no function button is bound, return false and read nothing outside of the
\* button state buffer.
C31_InvalidQueriesFalse ==
    /\ queried # <<>>
    /\ \/ queried.call[1] = "isButtonDown" /\ queried.call[2] >= num_buttons_
       \/ queried.call[1] = "isFuncButtonDown" /\ bttn_ids_["func"] = kInvalidButtonId
    => queried.ret = FALSE /\ queried.index \in DOMAIN button_state_buffer_


(***************************************************************************)
(* Claims about the empty queue.                                           *)
(***************************************************************************)
\* C32: getAndRemoveNextEvent on an empty queue returns an event of the type INVALID
\* and leaves the queue as it is, so empty, however often it is called; isQueueEmpty
\* is true exactly when every pushed event that was not evicted by an overflow has
\* been popped, that is when the reference FIFO holds nothing.
C32_EmptyQueue ==
    /\ isQueueEmpty(events_) =>
          /\ NextEvent(events_).type = "INVALID"
          /\ getAndRemoveNextEvent(events_) = events_
          /\ isQueueEmpty(getAndRemoveNextEvent(events_))
    /\ isQueueEmpty(events_) = (ref = <<>>)
    /\ ~isQueueEmpty(events_) => NextEvent(events_).type # "INVALID"

\* The queue was popped while it was empty, then filled beyond its capacity and
\* popped until it was empty again.
C32_Witness ==
    /\ firstPopAt = 0
    /\ overflowed
    /\ Len(pushed) = MaxPushes
    /\ Len(popped) = kQueueSize
    /\ isQueueEmpty(events_)


(***************************************************************************)
(* Claims about the sequence of the events of a button.                    *)
(***************************************************************************)
\* C33: the events posted for a button alternate ButtonPressed, ButtonReleased,
\* ButtonPressed, ... and start with ButtonPressed: a Process() call posts at most
\* one event for a button, a ButtonPressed when the most recent event of the button
\* was a ButtonReleased or there was none, and a ButtonReleased when it was a
\* ButtonPressed.
C33_EventsAlternate ==
    [][calls' # calls =>
          \A i \in Buttons :
             LET evs == EventsOf(posted', i)
             IN evs # <<>> =>
                   /\ Len(evs) = 1
                   /\ evs[1].type = IF lastEv[i] = "BUTTON_PRESSED"
                                    THEN "BUTTON_RELEASED" ELSE "BUTTON_PRESSED"]_vars

(***************************************************************************)
(* A dispatcher with one display on which pages are opened and closed one  *)
(* at a time while the pot is moved and process() runs.                    *)
(***************************************************************************)
InitClosing == UiInit(0, UnboundIds, addDisplay(<<>>, 0), <<>>)

\* UI::openPage(page) and UI::closePage(page) on the dispatcher that is processed
OpenOne ==
    \E page \in Pages : Operated("openPage", "A", page, openPage(UiState, "A", page))

CloseOne ==
    \E page \in Pages : Operated("closePage", "A", page, closePage(UiState, "A", page))

\* addPotMoved(0, 3) by a producer, the queue empty
PushPotMoved ==
    /\ isQueueEmpty(events_)
    /\ events_' = PushEvent(events_, addPotMoved(0, 3))
    /\ lastOp' = [op |-> "none", ui |-> "A", page |-> 1]
    /\ invoked' = <<>>
    /\ queried' = <<>>
    /\ UNCHANGED svars
    /\ UNCHANGED <<pushed, popped, ref, lastRet, refRet, overflowed, firstPopAt>>
    /\ UNCHANGED <<ivars, mvars, bvars, pvars, pages_, parent_, hooks, snap>>
    /\ UNCHANGED <<is_muted_, queue_events_, bttn_ids_, button_state_buffer_, displays_,
                   last_display_update_times_, redraws, holding, held, redrawCount,
                   everyTick, painted, mnvars>>

NextClosing ==
    \/ OpenOne
    \/ CloseOne
    \/ PushPotMoved
    \/ DrawProcess

SpecClosing == InitClosing /\ [][NextClosing]_vars


\* C34: after closePage(p) the page p gets no input callback and no draw call from a
\* process() of the dispatcher until it is opened again, so a process() calls only
\* pages that are open on the dispatcher; and the slot of p is free again: openPage
\* of a closed page on a dispatcher on which fewer than kMaxNumPages pages are open
\* is not refused.
C34_ClosedPageIsGone ==
    [][/\ lastOp'.op = "process" =>
             /\ \A k \in 1 .. Len(invoked') : \A j \in 1 .. Len(invoked'[k].calls) :
                   parent_[invoked'[k].calls[j].page] = "A"
             /\ \A i \in DOMAIN painted' : \A j \in 1 .. Len(painted'[i]) :
                   painted'[i][j][1] = "draw" => parent_[painted'[i][j][2]] = "A"
       /\ /\ lastOp'.op = "openPage"
          /\ parent_[lastOp'.page] = nullptr
          /\ Cardinality(OpenOn(lastOp'.ui)) < kMaxNumPages
          => parent_'[lastOp'.page] = lastOp'.ui]_vars


\* C35: every ButtonPressed event that the button monitor posts carries a click
\* count of at least 1, however many presses follow one another inside the double
\* click window; the count 0 is what a page handler is given for a release.
C35_ClickCountPositive ==
    \A k \in 1 .. Len(posted) :
        posted[k].type = "BUTTON_PRESSED" => posted[k].payload >= 1


(***************************************************************************)
(* Claims about the sequence of the events of a pot.                       *)
(***************************************************************************)
\* The activity that the events before the k-th of the sequence evs leave a pot
\* in, whose most recent activity event before evs was last.
RECURSIVE ActivityBefore(_, _, _)
ActivityBefore(evs, k, last) ==
    IF k <= 1 THEN last
    ELSE IF evs[k - 1].type = "POT_ACTIVITY_CHANGED" THEN evs[k - 1].payload
    ELSE ActivityBefore(evs, k - 1, last)

\* C36: for a pot with an idle timeout > 0 the PotActivityChanged events alternate
\* inactive, active, inactive, ..., the first being inactive; every PotMoved event
\* is posted while the pot is moving, that is when its most recent activity event
\* is active or there is none yet; and isMoving(id) is true exactly when the most
\* recent activity event of the pot is active or none has been posted.
C36_ActivityAlternates ==
    /\ [](potTimeout_ > 0 =>
            \A i \in Pots : isMoving(i) = (lastActivity[i] \in {"none", "ACTIVE"}))
    /\ [][potTimeout_ > 0 /\ calls' # calls =>
             \A i \in Pots :
                LET evs == EventsOf(posted', i)
                IN \A k \in 1 .. Len(evs) :
                      LET before == ActivityBefore(evs, k, lastActivity[i])
                      IN /\ evs[k].type = "POT_ACTIVITY_CHANGED" =>
                               evs[k].payload = IF before = "INACTIVE"
                                                THEN "ACTIVE" ELSE "INACTIVE"
                         /\ evs[k].type = "POT_MOVED" =>
                               before \in {"none", "ACTIVE"}]_vars

\* A pot has become idle and was then moved again.
C36_Witness ==
    /\ potTimeout_ > 0
    /\ lastActivity[0] = "ACTIVE"
    /\ lastActivity[1] = "INACTIVE"
    /\ isMoving(0)
    /\ ~isMoving(1)


(***************************************************************************)
(* Claims about roles without a button.                                    *)
(***************************************************************************)
\* The role whose callback the handler call c is, "none" for onButton.
RoleOf(c) ==
    CASE c[1] = "onOkayButton" -> "ok"
      [] c[1] = "onCancelButton" -> "cancel"
      [] c[1] = "onFunctionButton" -> "func"
      [] c[1] = "onArrowButton" -> c[2]
      [] OTHER -> "none"

\* C38: the callback of a role that no button is bound to is never invoked: for
\* every button event in the queue, the one with the reserved invalid button id
\* included, every role callback invoked belongs to a role that has a button, and
\* an event whose id belongs to no such role goes to onButton.
C38_UnboundRoleNotCalled ==
    [][lastOp'.op = "process" =>
         \A k \in 1 .. Len(invoked') :
            LET r == invoked'[k]
            IN r.e.type \in {"BUTTON_PRESSED", "BUTTON_RELEASED"} =>
                 \A j \in 1 .. Len(r.calls) :
                    LET role == RoleOf(r.calls[j].call)
                    IN /\ role # "none" => bttn_ids_[role] # kInvalidButtonId
                       /\ (\A ro \in Roles : bttn_ids_[ro] = kInvalidButtonId
                                                \/ bttn_ids_[ro] # r.e.id)
                          => role = "none"]_vars


(***************************************************************************)
(* Claims about the entered flag of the menu.                              *)
(***************************************************************************)
\* C37: in every state of the menu, whatever events, SelectItem calls, Init calls
\* and show hooks led to it, the entered flag is set only if allowEntering is set
\* and the selected item is modifiable (a value item or a custom item answering
\* CanBeModified with true); the menu is never entered on a callback, checkbox,
\* open-submenu or close item.
C37_EnteredOnlyOnModifiable ==
    menu.isEntered_ =>
        /\ menu.allowEntering_
        /\ SelectedIsModifiable
        /\ menu.items_[menu.selectedItemIdx_ + 1].type
             \notin {"callbackFunctionItem", "checkboxItem", "openSubMenuItem",
                     "closeMenuItem"}

\* The menu is entered on the modifiable custom item of a list that also holds an
\* open-submenu and a close item, and the encoder has just been turned.
C37_Witness ==
    /\ MenuCall("OnEncoderTurned")
    /\ menu.isEntered_
    /\ menu.numItems_ = 4
    /\ menu.items_[menu.selectedItemIdx_ + 1].type = "customItem"


(***************************************************************************)
(* Stack<T, kBufferSize> (util_stack.h) on its own, T = int: popBack and   *)
(* insert, which the dispatcher uses in its destructor only.               *)
(***************************************************************************)
StackSize == 3
StackValues == {1, 2}

\* What a slot of buffer_ that was never written, or memory outside buffer_, can
\* hold: any value of T.  T() is 0.
Indeterminate == StackValues \cup {0}

\* buffer_[idx], read as the code reads it: without a check of the index
ReadSlot(st, idx) ==
    IF idx \in DOMAIN st.buffer_ THEN {st.buffer_[idx]} ELSE Indeterminate

\* Stack::popBack(): the outcomes, each the stack left and the value returned
popBack(st) ==
    IF st.buffer_head_ = 0
    THEN {[st |-> st, ret |-> 0, returned |-> TRUE]}
    ELSE {[st |-> [st EXCEPT !.buffer_head_ = @ - 1], ret |-> v, returned |-> TRUE] :
             v \in ReadSlot(st, st.buffer_head_)}

\* The loop of Stack::insert, for (i = ...; i >= idx; i--) buffer_[i + 1] = buffer_[i],
\* as far as i stays a valid index
RECURSIVE ShiftUp(_, _, _)
ShiftUp(buffer, i, idx) ==
    IF i < idx \/ i < 0 THEN buffer
    ELSE ShiftUp([buffer EXCEPT ![i + 1] = buffer[i]], i - 1, idx)

\* Stack::insert(uint32_t idx, const T& item): the outcomes.  With idx = 0 the
\* condition i >= idx of the loop holds for every uint32_t i: after i = 0 the
\* counter wraps to 2^32 - 1, buffer_[0] is overwritten with what lies outside the
\* buffer, and the loop goes on; the call does not return.
insert(st, idx, item) ==
    IF st.buffer_head_ >= Cardinality(DOMAIN st.buffer_) \/ idx > st.buffer_head_
    THEN {[st |-> st, ret |-> FALSE, returned |-> TRUE]}
    ELSE IF idx = st.buffer_head_
    THEN {[st |-> [buffer_ |-> [st.buffer_ EXCEPT ![st.buffer_head_] = item],
                   buffer_head_ |-> st.buffer_head_ + 1],
           ret |-> TRUE, returned |-> TRUE]}
    ELSE IF idx > 0
    THEN {[st |-> [buffer_ |-> [ShiftUp(st.buffer_, st.buffer_head_ - 1, idx)
                                  EXCEPT ![idx] = item],
                   buffer_head_ |-> st.buffer_head_ + 1],
           ret |-> TRUE, returned |-> TRUE]}
    ELSE {[st |-> [st EXCEPT !.buffer_ = [ShiftUp(st.buffer_, st.buffer_head_ - 1, 0)
                                            EXCEPT ![0] = v]],
           ret |-> FALSE, returned |-> FALSE] : v \in Indeterminate}

\* Stack::Stack(): buffer_head_(0), the slots of buffer_ not initialised
InitStack ==
    /\ InitQueue
    /\ InitIrq
    /\ NoMonitors
    /\ NoDispatch
    /\ pages_ = <<>>
    /\ parent_ = <<>>
    /\ hooks = <<>>
    /\ lastOp = <<>>
    /\ snap = <<>>
    /\ \E buffer \in [0 .. StackSize - 1 -> Indeterminate] :
          stack = [buffer_ |-> buffer, buffer_head_ |-> 0]
    /\ stackOp = [call |-> <<"Stack">>, returned |-> TRUE, ret |-> TRUE, before |-> <<>>]

\* The bookkeeping of the call on the stack that has had the outcome r.  A call that
\* does not return is the last one.
StackOperated(call, r) ==
    /\ stackOp.returned
    /\ stack' = r.st
    /\ stackOp' = [call |-> call, returned |-> r.returned, ret |-> r.ret, before |-> stack]
    /\ UNCHANGED <<qvars, ivars, mvars, bvars, pvars>>
    /\ UNCHANGED <<pages_, parent_, hooks, lastOp, snap, dvars, painted, mnvars, queried>>

PushBack ==
    \E element_to_add \in StackValues :
        StackOperated(<<"pushBack", element_to_add>>,
                      [st |-> pushBack(stack, element_to_add),
                       ret |-> ~isFull(stack), returned |-> TRUE])

PopBack ==
    \E r \in popBack(stack) : StackOperated(<<"popBack">>, r)

Insert ==
    \E idx \in 0 .. StackSize + 1, item \in StackValues :
        \E r \in insert(stack, idx, item) : StackOperated(<<"insert", idx, item>>, r)

NextStack ==
    \/ PushBack
    \/ PopBack
    \/ Insert

SpecStack == InitStack /\ [][NextStack]_vars

\* C39: popBack on a stack that is not empty returns the element added last, the
\* one on top, and the number of elements is one less afterwards; on an empty
\* stack it returns T() and the stack stays empty.
C39_PopBackReturnsTop ==
    stackOp.call[1] = "popBack" =>
        LET before == stackOp.before
            count == getNumElements(before)
        IN /\ stackOp.returned
           /\ IF count > 0
              THEN /\ stackOp.ret = Elements(before)[count]
                   /\ getNumElements(stack) = count - 1
              ELSE /\ stackOp.ret = 0
                   /\ getNumElements(stack) = 0

\* seq with item put in front of its element number idx, counted from 0
InsertAt(seq, idx, item) ==
    SubSeq(seq, 1, idx) \o <<item>> \o SubSeq(seq, idx + 1, Len(seq))

\* C40: insert(idx, item) returns for every idx, 0 included; with idx no greater
\* than the number of elements and the stack not full it returns true and the
\* elements are the former ones with item put in at index idx; otherwise it returns
\* false and the stack is as it was.
C40_InsertShiftsUp ==
    stackOp.call[1] = "insert" =>
        LET before == stackOp.before
            idx == stackOp.call[2]
        IN /\ stackOp.returned
           /\ IF idx <= getNumElements(before) /\ ~isFull(before)
              THEN /\ stackOp.ret = TRUE
                   /\ Elements(stack) = InsertAt(Elements(before), idx, stackOp.call[3])
              ELSE /\ stackOp.ret = FALSE
                   /\ stack = before

====
